---------------------------- MODULE Spec2Model ----------------------------
(***************************************************************************)
(* Model of the alignment and merge-reconciliation core of                 *)
(* ocr_proofreading.py: the two DiffTextEdit editors in merge mode, the    *)
(* MainWindow handlers that drive them (toggle_merge_view, page loading,   *)
(* text-changed slots) and the asynchronous diff worker.                   *)
(*                                                                         *)
(* Texts.  A Python str is a sequence of code points; the model's code     *)
(* points are "a", "b" (one UTF-16 unit each) and "S" (a supplementary     *)
(* plane character, two UTF-16 units).  A Qt document is a sequence of     *)
(* UTF-16 units: "a", "b", "H" (high surrogate) and "L" (low surrogate).   *)
(* Positions are 0-based as in the source; Slice(s, i, j) is s[i:j].       *)
(***************************************************************************)
EXTENDS Integers, Sequences, FiniteSets, TLC

\* ------------------------------------------------------------------ bounds
\* Longest page text drawn for the initial page store.
MaxLen == 3

\* Longest pair of page texts (both lengths added) a merge episode starts from.
MaxTotal == 5

\* How many times merge mode may be entered in one run with page changes
\* (from the toolbar or by a page load while it is active).
MaxEpisodes == 2

\* ------------------------------------------------------------ basic helpers
Min(x, y) == IF x <= y THEN x ELSE y

Max(x, y) == IF x >= y THEN x ELSE y

\* Python slice s[i:j] for 0 <= i, j (clamped to the sequence like Python).
Slice(s, i, j) == SubSeq(s, Min(i, Len(s)) + 1, Min(j, Len(s)))

\* s with the 0-based unit range [i, j) cut out.
Cut(s, i, j) == SubSeq(s, 1, i) \o SubSeq(s, j + 1, Len(s))

\* Code points of the model; "S" stands for a character above U+FFFF.
Chars == {"a", "b", "S"}

RECURSIVE SeqsUpTo(_, _)
SeqsUpTo(A, n) ==
    IF n = 0 THEN {<<>>}
    ELSE LET shorter == SeqsUpTo(A, n - 1)
         IN  shorter \cup {Append(s, c) : s \in {t \in shorter : Len(t) = n - 1}, c \in A}

\* The page texts the initial store is drawn from.
Texts == SeqsUpTo(Chars, MaxLen)

\* QString from a Python str (setPlainText): "S" becomes a surrogate pair; a
\* lone surrogate code point stays one unit.
RECURSIVE Enc(_)
Enc(s) ==
    IF s = <<>> THEN <<>>
    ELSE (IF Head(s) = "S" THEN <<"H", "L">> ELSE <<Head(s)>>) \o Enc(Tail(s))

\* Python str from a QString (toPlainText): a surrogate pair becomes one code
\* point, an unpaired surrogate is kept as a lone surrogate code point.
RECURSIVE Dec(_)
Dec(u) ==
    IF u = <<>> THEN <<>>
    ELSE IF Len(u) >= 2 /\ u[1] = "H" /\ u[2] = "L"
         THEN <<"S">> \o Dec(SubSeq(u, 3, Len(u)))
         ELSE <<Head(u)>> \o Dec(Tail(u))

\* ------------------------------------------------- difflib.SequenceMatcher
\* Length of the common run a[i:], b[j:] inside the windows [.., ahi), [.., bhi).
RECURSIVE MatchLen(_, _, _, _, _, _)
MatchLen(a, b, i, j, ahi, bhi) ==
    IF i < ahi /\ j < bhi /\ a[i + 1] = b[j + 1]
    THEN 1 + MatchLen(a, b, i + 1, j + 1, ahi, bhi)
    ELSE 0

\* find_longest_match with no junk: the longest block a[i:i+k] = b[j:j+k] in
\* the window; of the longest ones the one starting earliest in a, and of
\* those the one starting earliest in b.  (alo, blo, 0) when nothing matches.
FindLongestMatch(a, b, alo, ahi, blo, bhi) ==
    LET cand == {<<i, j>> \in (alo .. ahi - 1) \X (blo .. bhi - 1) :
                    MatchLen(a, b, i, j, ahi, bhi) > 0}
    IN  IF cand = {} THEN <<alo, blo, 0>>
        ELSE LET len(c) == MatchLen(a, b, c[1], c[2], ahi, bhi)
                 best == CHOOSE c \in cand :
                            \A d \in cand :
                                \/ len(c) > len(d)
                                \/ /\ len(c) = len(d)
                                   /\ \/ c[1] < d[1]
                                      \/ c[1] = d[1] /\ c[2] <= d[2]
             IN  <<best[1], best[2], len(best)>>

\* The recursion of get_matching_blocks: the longest match of the window,
\* then the matches to its left and to its right, in ascending order.
RECURSIVE MatchingBlocksIn(_, _, _, _, _, _)
MatchingBlocksIn(a, b, alo, ahi, blo, bhi) ==
    LET x == FindLongestMatch(a, b, alo, ahi, blo, bhi)
        i == x[1]
        j == x[2]
        k == x[3]
    IN  IF k = 0 THEN <<>>
        ELSE (IF alo < i /\ blo < j
              THEN MatchingBlocksIn(a, b, alo, i, blo, j) ELSE <<>>)
             \o <<x>>
             \o (IF i + k < ahi /\ j + k < bhi
                 THEN MatchingBlocksIn(a, b, i + k, ahi, j + k, bhi) ELSE <<>>)

\* get_matching_blocks collapses adjacent blocks into one.
RECURSIVE CollapseBlocks(_, _)
CollapseBlocks(blocks, acc) ==
    IF blocks = <<>> THEN (IF acc[3] > 0 THEN <<acc>> ELSE <<>>)
    ELSE LET x == Head(blocks)
         IN  IF acc[1] + acc[3] = x[1] /\ acc[2] + acc[3] = x[2]
             THEN CollapseBlocks(Tail(blocks), <<acc[1], acc[2], acc[3] + x[3]>>)
             ELSE (IF acc[3] > 0 THEN <<acc>> ELSE <<>>)
                  \o CollapseBlocks(Tail(blocks), x)

\* Variant: the sentinel is left out.
GetMatchingBlocksNoSentinel(a, b) ==
    CollapseBlocks(MatchingBlocksIn(a, b, 0, Len(a), 0, Len(b)), <<0, 0, 0>>)

\* get_matching_blocks: the collapsed blocks followed by the sentinel
\* (len(a), len(b), 0).
GetMatchingBlocks(a, b) ==
    CollapseBlocks(MatchingBlocksIn(a, b, 0, Len(a), 0, Len(b)), <<0, 0, 0>>)
        \o << <<Len(a), Len(b), 0>> >>

\* get_opcodes: walk the matching blocks; the gap before a block is a
\* replace, delete or insert, the block itself an equal.
RECURSIVE OpcodesFrom(_, _, _)
OpcodesFrom(blocks, i, j) ==
    IF blocks = <<>> THEN <<>>
    ELSE LET x   == Head(blocks)
             ai  == x[1]
             bj  == x[2]
             tag == IF i < ai /\ j < bj THEN "replace"
                    ELSE IF i < ai THEN "delete"
                    ELSE IF j < bj THEN "insert"
                    ELSE ""
         IN  (IF tag # "" THEN << <<tag, i, ai, j, bj>> >> ELSE <<>>)
             \o (IF x[3] > 0
                 THEN << <<"equal", ai, ai + x[3], bj, bj + x[3]>> >> ELSE <<>>)
             \o OpcodesFrom(Tail(blocks), ai + x[3], bj + x[3])

\* difflib.SequenceMatcher(None, a, b, autojunk=False).get_opcodes()
GetOpcodes(a, b) == OpcodesFrom(GetMatchingBlocks(a, b), 0, 0)


\* ------------------------------------------------------------- the state
Side == {"left", "right"}

Other(side) == IF side = "left" THEN "right" ELSE "left"

\* Pages the user can navigate to.
NumPages == 2

Pages == 1 .. NumPages

\* Python None as the value of original_text_backup.
None == <<"None">>

\* diff_worker = None: no DiffWorker exists.
NoWorker == [pc |-> "none", text_l |-> <<>>, text_r |-> <<>>, opcodes |-> <<>>]

VARIABLES
    doc,                   \* [Side -> units]: each editor's QTextDocument content
    is_merge_mode,         \* [Side -> BOOLEAN]: DiffTextEdit.is_merge_mode
    merge_cursors,         \* [Side -> Seq(cursor)]: DiffTextEdit.merge_cursors
    original_text_backup,  \* [Side -> str or None]
    diff_opcodes,          \* [Side -> opcodes]: DiffTextEdit.diff_opcodes
    other_text_content,    \* [Side -> str]: DiffTextEdit.other_text_content
    merge_mode,            \* MainWindow.merge_mode
    pages_left,            \* [Pages -> str]: absent pages read as ""
    pages_right_text,      \* [Pages -> str]
    dirty_pages_left,      \* set of pages
    dirty_pages_right,     \* set of pages
    current_loaded_page,   \* page shown in the editors (and in spin_page)
    is_updating_diff,      \* MainWindow._is_updating_diff
    diff_timer,            \* TRUE while the single-shot debounce timer runs
    timer_left,            \* time left of the interval the timer was started with
    since_edit,            \* time since last_manual_edit_time, up to the interval
    diff_worker,           \* NoWorker or the DiffWorker in flight: its inputs,
                           \* its opcodes, and how far it has got (pc)
    has_changes,           \* [Side -> BOOLEAN]: last return of exit_merge_mode
    episodes,              \* how many times merge mode has been entered
    resolved,              \* [Side -> Seq]: per span (construction order) the
                           \* action executed on it, "pending" before
    ocr_text_full,         \* MainWindow.ocr_text_full
    ocr_char_map,          \* MainWindow.ocr_char_map
    ocr_json,              \* [Pages -> blocks]: what the OCR JSON file of each
                           \* page holds, <<>> where there is no file
    cache,                 \* TextToBBoxMapper.cache: page_num -> blocks
    returned,              \* what the mapper method called last returned
    page_images,           \* the pages get_page_image yields a loadable image for
    pred_size,             \* what ImageStitcher.predict_size returned last
    stitched_img,          \* what ImageStitcher.stitch returned last
    entries,               \* ImageExportWorker.entries
    force_overwrite,       \* ImageExportWorker.force_overwrite
    is_running,            \* ImageExportWorker.is_running
    worker_pc,             \* where ImageExportWorker.run stands
    worker_i,              \* the index i of its loop over the entries
    progress,              \* the messages emitted on its progress signal
    finished,              \* the emissions of its finished signal
    out_files,             \* output_slices: file name -> size of the image saved
    stitch_log,            \* the indices of the entries stitch was called for
    boxes,                 \* the list BBoxMerger.merge is called with
    final_merged,          \* what BBoxMerger.merge returned, <<>> before the call
    global_undo_stack,     \* MainWindow.global_undo_stack: snapshots of the stores
    config_data,           \* ConfigManager.data: projects and active_project
    last                   \* the handler that ran last, with its arguments

vars == <<doc, is_merge_mode, merge_cursors, original_text_backup, diff_opcodes,
          other_text_content, merge_mode, pages_left, pages_right_text,
          dirty_pages_left, dirty_pages_right, current_loaded_page,
          is_updating_diff, diff_timer, timer_left, since_edit, diff_worker,
          has_changes, episodes,
          resolved, ocr_text_full, ocr_char_map, ocr_json, cache, returned,
          page_images, pred_size, stitched_img, entries, force_overwrite,
          is_running, worker_pc, worker_i, progress, finished, out_files,
          stitch_log, boxes, final_merged, global_undo_stack, config_data, last>>

editorVars == <<doc, is_merge_mode, merge_cursors, original_text_backup>>

diffDataVars == <<diff_opcodes, other_text_content>>

storeVars == <<pages_left, pages_right_text, dirty_pages_left, dirty_pages_right>>

workerVars == <<is_updating_diff, diff_worker>>

mergerVars == <<boxes, final_merged>>

ocrMapVars == <<ocr_text_full, ocr_char_map>>

mapperVars == <<ocr_json, cache, returned>>

stitcherVars == <<page_images, pred_size, stitched_img>>

exportVars == <<entries, force_overwrite, is_running, worker_pc, worker_i,
                progress, finished, out_files, stitch_log>>

\* The undo stack of the global actions and the configuration: left alone by
\* the editors' handlers and by the export tools.
sessionVars == <<global_undo_stack, config_data>>

\* What the handlers of the main window leave alone.
toolVars == <<mergerVars, mapperVars, stitcherVars, exportVars>>

\* What the mapper, the merger and the stitcher leave alone.
windowVars == <<editorVars, diffDataVars, merge_mode, storeVars, workerVars,
                current_loaded_page, diff_timer, timer_left, since_edit,
                has_changes, episodes, resolved, ocrMapVars>>

\* diff_timer.setInterval(200), in time units of 100 ms.
DebounceInterval == 2

\* The right-hand source selector stays on its first entry, "Text File B":
\* the right editor is backed by pages_right_text.
combo_source == "Text File B"

\* ------------------------------------------------------------ QTextCursor
SelStart(c) == Min(c.anchor, c.position)

SelEnd(c) == Max(c.anchor, c.position)

\* QTextCursor.movePosition(Right): the next cursor position never splits a
\* surrogate pair that starts at p.
NextCursorPosition(d, p) ==
    IF p >= Len(d) THEN p
    ELSE IF d[p + 1] = "H" /\ p + 2 <= Len(d) /\ d[p + 2] = "L" THEN p + 2
    ELSE p + 1

RECURSIVE MoveRight(_, _, _)
MoveRight(d, p, n) ==
    IF n = 0 THEN p ELSE MoveRight(d, NextCursorPosition(d, p), n - 1)

\* A position the mouse can put a cursor at: not inside a surrogate pair.
IsCursorPosition(d, p) ==
    /\ p \in 0 .. Len(d)
    /\ ~(p > 0 /\ p < Len(d) /\ d[p] = "H" /\ d[p + 1] = "L")

\* How Qt moves a cursor end x when the units [s, e) are removed.
AdjustPosition(x, s, e) ==
    IF x >= e THEN x - (e - s) ELSE IF x > s THEN s ELSE x

AdjustCursor(c, s, e) ==
    [c EXCEPT !.anchor = AdjustPosition(c.anchor, s, e),
              !.position = AdjustPosition(c.position, s, e)]

AdjustAll(cs, s, e) == [k \in 1 .. Len(cs) |-> AdjustCursor(cs[k], s, e)]

\* dict equality of two merge_cursors items: same type and equal cursors.
\* (id is the construction index of the span; the program does not hold it.)
SameItem(x, y) ==
    x.type = y.type /\ x.anchor = y.anchor /\ x.position = y.position

\* list.remove(item): drops the first element equal to item, if any.
ListRemove(cs, item) ==
    LET hits == {k \in 1 .. Len(cs) : SameItem(cs[k], item)}
    IN  IF hits = {} THEN cs
        ELSE LET k == CHOOSE h \in hits : \A g \in hits : h <= g
             IN  SubSeq(cs, 1, k - 1) \o SubSeq(cs, k + 1, Len(cs))


\* ------------------------------------------ MainWindow.generate_merge_data
\* The unified text and the (start, length, type) list, in code points.
RECURSIVE GenerateMergeDataFrom(_, _, _, _)
GenerateMergeDataFrom(text_a, text_b, opcodes, curr_len) ==
    IF opcodes = <<>> THEN [merged |-> <<>>, formats |-> <<>>]
    ELSE LET op  == Head(opcodes)
             tag == op[1]
             seg_a == Slice(text_a, op[2], op[3])
             seg_b == Slice(text_b, op[4], op[5])
             here ==
                 IF tag = "equal"
                 THEN [merged |-> seg_a, formats |-> <<>>]
                 ELSE IF tag = "delete"
                 THEN [merged |-> seg_a,
                       formats |-> << <<curr_len, Len(seg_a), "delete">> >>]
                 ELSE IF tag = "insert"
                 THEN [merged |-> seg_b,
                       formats |-> << <<curr_len, Len(seg_b), "insert">> >>]
                 ELSE [merged |-> seg_b \o seg_a,
                       formats |-> << <<curr_len, Len(seg_b), "insert">>,
                                      <<curr_len + Len(seg_b), Len(seg_a), "delete">> >>]
             rest == GenerateMergeDataFrom(text_a, text_b, Tail(opcodes),
                                           curr_len + Len(here.merged))
         IN  [merged |-> here.merged \o rest.merged,
              formats |-> here.formats \o rest.formats]

GenerateMergeData(text_a, text_b, opcodes) ==
    GenerateMergeDataFrom(text_a, text_b, opcodes, 0)

\* -------------------------------------------- DiffTextEdit.enter_merge_mode
\* One persistent cursor per format entry: setPosition(start) takes start as
\* a document position (UTF-16 units), then `length` moves to the right keep
\* the anchor.
ChunkCursor(d, format, id) ==
    [type     |-> format[3],
     anchor   |-> format[1],
     position |-> MoveRight(d, format[1], format[2]),
     id       |-> id]

\* The editor after enter_merge_mode(merged_text, formats).
EnterMergeMode(d, merged_text, formats) ==
    LET nd == Enc(merged_text)
    IN  [doc      |-> nd,
         backup   |-> Dec(d),
         cursors  |-> [k \in 1 .. Len(formats) |-> ChunkCursor(nd, formats[k], k - 1)]]

\* ----------------------------------------- DiffTextEdit.execute_merge_action
\* Variant: the branches of apply and reject exchanged.
RemovesTextSwapped(action, ctype) ==
    \/ action = "apply" /\ ctype = "insert"
    \/ action = "reject" /\ ctype = "delete"

\* Whether `action` on a span of this type removes the span's text.
RemovesText(action, ctype) ==
    \/ action = "apply" /\ ctype = "delete"
    \/ action = "reject" /\ ctype = "insert"

\* The loop over items_to_process.  `items` are the cursor objects still to
\* process; they follow the document like the cursors left in the list.
\* changed: textChanged was emitted (a non-empty selection was removed or
\* reformatted).
RECURSIVE ExecuteItems(_, _, _, _, _, _)
ExecuteItems(d, cs, items, action, changed, done) ==
    IF items = <<>>
    THEN [doc |-> d, cursors |-> cs, changed |-> changed, done |-> done]
    ELSE LET item == Head(items)
             s    == SelStart(item)
             e    == SelEnd(item)
             rem  == RemovesText(action, item.type)
             d1   == IF rem THEN Cut(d, s, e) ELSE d
             cs1  == IF rem THEN AdjustAll(cs, s, e) ELSE cs
             rest == IF rem THEN AdjustAll(Tail(items), s, e) ELSE Tail(items)
             it1  == IF rem THEN AdjustCursor(item, s, e) ELSE item
         IN  ExecuteItems(d1, ListRemove(cs1, it1), rest, action,
                          changed \/ s < e, done \cup {item.id})

\* Variant: an index past the end is taken for the last span.
ValidIndicesClamped(indices, n) ==
    IF n = 0 THEN <<>>
    ELSE [k \in 1 .. Len(indices) |-> IF indices[k] >= n THEN n - 1 ELSE indices[k]]

\* indices filtered to the ones inside the list, in the order given.
ValidIndices(indices, n) == SelectSeq(indices, LAMBDA i : 0 <= i /\ i < n)

ExecuteMergeAction(d, cs, indices, action) ==
    LET valid_indices == ValidIndices(indices, Len(cs))
        items_to_process == [k \in 1 .. Len(valid_indices) |-> cs[valid_indices[k] + 1]]
    IN  ExecuteItems(d, cs, items_to_process, action, FALSE, {})

\* -------------------------------------------- DiffTextEdit.handle_merge_click
\* Index of the first span whose selection contains pos (both ends
\* included), -1 when there is none.
TargetIndex(cs, pos) ==
    LET hits == {k \in 1 .. Len(cs) : SelStart(cs[k]) <= pos /\ pos <= SelEnd(cs[k])}
    IN  IF hits = {} THEN -1
        ELSE (CHOOSE h \in hits : \A g \in hits : h <= g) - 1

\* Variant: only the next span is tried as companion.
MergeGroupNextOnly(cs, target_idx) ==
    IF /\ target_idx + 1 < Len(cs)
       /\ SelEnd(cs[target_idx + 1]) = SelStart(cs[target_idx + 2])
       /\ cs[target_idx + 1].type # cs[target_idx + 2].type
    THEN <<target_idx + 1, target_idx>>
    ELSE <<target_idx>>

\* The target with its adjacent companion of the other type: the next span
\* is tried first, the previous one only when the next was not taken.
\* Sorted descending.
MergeGroup(cs, target_idx) ==
    LET target == cs[target_idx + 1]
        withNext ==
            /\ target_idx + 1 < Len(cs)
            /\ SelEnd(target) = SelStart(cs[target_idx + 2])
            /\ target.type # cs[target_idx + 2].type
        withPrev ==
            /\ ~withNext
            /\ target_idx - 1 >= 0
            /\ SelEnd(cs[target_idx]) = SelStart(target)
            /\ target.type # cs[target_idx].type
    IN  IF withNext THEN <<target_idx + 1, target_idx>>
        ELSE IF withPrev THEN <<target_idx, target_idx - 1>>
        ELSE <<target_idx>>

\* apply_sync_merge_action inverts the action it receives.
InvertAction(action) == IF action = "apply" THEN "reject" ELSE "apply"

\* --------------------------------------------- DiffTextEdit.exit_merge_mode
\* The pending inserts in descending order of selectionStart (a stable sort).
RECURSIVE SortDescending(_)
SortDescending(cs) ==
    IF cs = <<>> THEN <<>>
    ELSE LET k == CHOOSE h \in 1 .. Len(cs) :
                     \A g \in 1 .. Len(cs) :
                         \/ SelStart(cs[h]) > SelStart(cs[g])
                         \/ SelStart(cs[h]) = SelStart(cs[g]) /\ h <= g
         IN  <<cs[k]>> \o SortDescending(SubSeq(cs, 1, k - 1) \o SubSeq(cs, k + 1, Len(cs)))

\* removeSelectedText on each cursor of the list in turn.
RECURSIVE RemoveAll(_, _)
RemoveAll(d, cs) ==
    IF cs = <<>> THEN d
    ELSE LET s == SelStart(Head(cs))
             e == SelEnd(Head(cs))
         IN  RemoveAll(Cut(d, s, e), AdjustAll(Tail(cs), s, e))

\* The editor's text and return value after exit_merge_mode(commit).
ExitMergeMode(d, cs, backup, commit) ==
    IF ~commit
    THEN [doc |-> IF backup # None THEN Enc(backup) ELSE d, has_changes |-> FALSE]
    ELSE LET pending_inserts ==
                 SortDescending(SelectSeq(cs, LAMBDA c : c.type = "insert"))
             nd == RemoveAll(d, pending_inserts)
         IN  [doc |-> nd, has_changes |-> Dec(nd) # backup]


\* ------------------------------------------------------------- MainWindow
\* ---------------------------------------------------------- OCR block map
\* A block is [text |-> chars, bbox |-> <<x1, y1, x2, y2>>, block_label |-> l].
\* load_current_page, step 3: the loop over ocr_data; st[i] is
\* (current_idx, ocr_text_full, ocr_char_map) after item i.
OcrLoop(ocr_data) ==
    LET st[i \in 0 .. Len(ocr_data)] ==
            IF i = 0
            THEN [current_idx |-> 0, ocr_text_full |-> <<>>, ocr_char_map |-> <<>>]
            ELSE LET text == ocr_data[i].text
                     chunk == text \o <<"\n">>
                     length == Len(chunk)
                     current_idx == st[i - 1].current_idx
                 IN  [current_idx |-> current_idx + length,
                      ocr_text_full |-> st[i - 1].ocr_text_full \o chunk,
                      ocr_char_map |->
                          Append(st[i - 1].ocr_char_map,
                                 [start_index |-> current_idx,
                                  end_index |-> current_idx + Len(text),
                                  bbox |-> ocr_data[i].bbox])]
    IN  st[Len(ocr_data)]

OcrTextFull(ocr_data) == OcrLoop(ocr_data).ocr_text_full

\* Variant: an entry's end_index takes in the newline after the block.
OcrCharMapWithNewline(ocr_data) ==
    [k \in 1 .. Len(ocr_data) |->
        [OcrLoop(ocr_data).ocr_char_map[k] EXCEPT !.end_index = @ + 1]]

\* ocr_char_map after the loop.
OcrCharMap(ocr_data) == OcrLoop(ocr_data).ocr_char_map

\* What the handler that ran last was called with; pre is the length of each
\* editor's pending list when it started.  For the handlers that map a
\* position: idx the position given, mapped what get_mapped_index returned,
\* shown the position the other editor was then highlighted or moved to
\* (-1: none).
LastRec(op, side, action, target, group, page) ==
    [op |-> op, side |-> side, action |-> action, target |-> target,
     group |-> group, page |-> page,
     pre |-> [s \in Side |-> Len(merge_cursors[s])],
     idx |-> -1, mapped |-> -1, shown |-> -1,
     entry_text |-> <<>>, page_nums |-> <<>>]

\* on_text_changed_left / on_text_changed_right, run for each editor of
\* `changed` (the editors that emitted textChanged), the editors then
\* holding nd: outside a diff run the page is marked dirty for that side and
\* update_memory_cache copies both editors into the page store.  (The
\* deferred_run_diff that ends the slot is the diff_timer' of each action.)
OnTextChanged(changed, nd) ==
    /\ dirty_pages_left' =
           IF "left" \in changed /\ ~is_updating_diff
           THEN dirty_pages_left \cup {current_loaded_page} ELSE dirty_pages_left
    /\ dirty_pages_right' =
           IF "right" \in changed /\ ~is_updating_diff
           THEN dirty_pages_right \cup {current_loaded_page} ELSE dirty_pages_right
    /\ pages_left' =
           IF changed # {} /\ ~is_updating_diff
           THEN [pages_left EXCEPT ![current_loaded_page] = Dec(nd["left"])]
           ELSE pages_left
    /\ pages_right_text' =
           IF changed # {} /\ ~is_updating_diff /\ combo_source = "Text File B"
           THEN [pages_right_text EXCEPT ![current_loaded_page] = Dec(nd["right"])]
           ELSE pages_right_text
    /\ since_edit' = IF changed # {} THEN 0 ELSE since_edit

\* The two editors after toggle_merge_view(True) started from documents dl, dr:
\* the left one enters with the diff left -> right, the right one with the
\* reverse diff right -> left.
EnterBoth(dl, dr) ==
    LET text_l == Dec(dl)
        text_r == Dec(dr)
        data_l == GenerateMergeData(text_l, text_r, GetOpcodes(text_l, text_r))
        data_r == GenerateMergeData(text_r, text_l, GetOpcodes(text_r, text_l))
    IN  [left  |-> EnterMergeMode(dl, data_l.merged, data_l.formats),
         right |-> EnterMergeMode(dr, data_r.merged, data_r.formats)]

\* The editor variables after both editors entered merge mode.
SetEntered(ent) ==
    /\ doc' = [s \in Side |-> ent[s].doc]
    /\ original_text_backup' = [s \in Side |-> ent[s].backup]
    /\ merge_cursors' = [s \in Side |-> ent[s].cursors]
    /\ is_merge_mode' = [s \in Side |-> TRUE]
    /\ resolved' = [s \in Side |-> [k \in 1 .. Len(ent[s].cursors) |-> "pending"]]
    /\ episodes' = episodes + 1

\* toggle_merge_view(True), from the toolbar action.
ToggleMergeViewOn ==
    /\ ~merge_mode
    /\ episodes < MaxEpisodes
    /\ merge_mode' = TRUE
    /\ SetEntered(EnterBoth(doc["left"], doc["right"]))
    /\ last' = LastRec("toggle_merge_view_on", "left", "", -1, <<>>, current_loaded_page)
    /\ UNCHANGED <<sessionVars, toolVars,
                   ocrMapVars, diffDataVars, storeVars, workerVars, current_loaded_page,
                   diff_timer, timer_left, since_edit, has_changes>>

\* toggle_merge_view(False): the left editor commits, the right one discards;
\* on_text_changed_left runs only when the left commit reports a change, and
\* the debounce timer is started in every case.
ToggleMergeViewOff ==
    /\ merge_mode
    /\ merge_mode' = FALSE
    /\ LET l == ExitMergeMode(doc["left"], merge_cursors["left"],
                              original_text_backup["left"], TRUE)
           r == ExitMergeMode(doc["right"], merge_cursors["right"],
                              original_text_backup["right"], FALSE)
           nd == [left |-> l.doc, right |-> r.doc]
       IN  /\ doc' = nd
           /\ has_changes' = [left |-> l.has_changes, right |-> r.has_changes]
           /\ OnTextChanged(IF l.has_changes THEN {"left"} ELSE {}, nd)
    /\ diff_timer' = TRUE
    /\ timer_left' = DebounceInterval
    /\ is_merge_mode' = [s \in Side |-> FALSE]
    /\ original_text_backup' = [s \in Side |-> None]
    /\ merge_cursors' = [s \in Side |-> <<>>]
    /\ last' = LastRec("toggle_merge_view_off", "left", "", -1, <<>>, current_loaded_page)
    /\ UNCHANGED <<sessionVars, toolVars,
                   ocrMapVars, diffDataVars, workerVars, current_loaded_page, resolved, episodes>>


\* mousePressEvent in merge mode with Ctrl (apply) or Alt (reject) held:
\* handle_merge_click finds the span under the cursor and its companion,
\* executes the action locally and emits merge_action_signal, which the other
\* editor's apply_sync_merge_action executes inverted when it is in merge
\* mode.  Every textChanged emitted on the way runs the main window's slot.
MergeClick(side, pos, action) ==
    /\ is_merge_mode[side]
    /\ IsCursorPosition(doc[side], pos)
    /\ TargetIndex(merge_cursors[side], pos) >= 0
    /\ LET other == Other(side)
           group == MergeGroup(merge_cursors[side], TargetIndex(merge_cursors[side], pos))
           mine  == ExecuteMergeAction(doc[side], merge_cursors[side], group, action)
           sync  == IF is_merge_mode[other]
                    THEN ExecuteMergeAction(doc[other], merge_cursors[other], group,
                                            InvertAction(action))
                    ELSE [doc |-> doc[other], cursors |-> merge_cursors[other],
                          changed |-> FALSE, done |-> {}]
           res   == [s \in Side |-> IF s = side THEN mine ELSE sync]
           act   == [s \in Side |-> IF s = side THEN action ELSE InvertAction(action)]
           nd    == [s \in Side |-> res[s].doc]
       IN  /\ doc' = nd
           /\ merge_cursors' = [s \in Side |-> res[s].cursors]
           /\ resolved' = [s \in Side |->
                             [k \in 1 .. Len(resolved[s]) |->
                                 IF (k - 1) \in res[s].done THEN act[s]
                                 ELSE resolved[s][k]]]
           /\ OnTextChanged({s \in Side : res[s].changed}, nd)
           /\ diff_timer' = (diff_timer \/ \E s \in Side : res[s].changed)
           /\ timer_left' = IF \E s \in Side : res[s].changed
                            THEN DebounceInterval ELSE timer_left
           /\ last' = LastRec("handle_merge_click", side, action,
                              TargetIndex(merge_cursors[side], pos), group,
                              current_loaded_page)
    /\ UNCHANGED <<sessionVars, toolVars,
                   ocrMapVars, is_merge_mode, original_text_backup, diffDataVars, merge_mode,
                   workerVars, current_loaded_page, has_changes, episodes>>

\* load_current_page for page p (spin_page already holds p), the page store
\* being (store_left, store_right) when it is called:
\* save_current_page_data writes the editors' texts into the store of the page
\* being left when they differ from it; then both editors are set, with their
\* signals blocked, to the stored texts of p; the debounce timer is started;
\* and when merge_mode is set toggle_merge_view(True) runs again.
LoadPageFrom(store_left, store_right, p, op) ==
    LET q == current_loaded_page
        current_left  == Dec(doc["left"])
        current_right == Dec(doc["right"])
        saved_left  == IF current_left # store_left[q]
                       THEN [store_left EXCEPT ![q] = current_left] ELSE store_left
        saved_right == IF combo_source = "Text File B" /\ current_right # store_right[q]
                       THEN [store_right EXCEPT ![q] = current_right]
                       ELSE store_right
        nd == [left |-> Enc(saved_left[p]), right |-> Enc(saved_right[p])]
    IN  /\ merge_mode => episodes < MaxEpisodes
        /\ pages_left' = saved_left
        /\ pages_right_text' = saved_right
        /\ dirty_pages_left' = IF current_left # store_left[q]
                               THEN dirty_pages_left \cup {q} ELSE dirty_pages_left
        /\ dirty_pages_right' =
               IF combo_source = "Text File B" /\ current_right # store_right[q]
               THEN dirty_pages_right \cup {q} ELSE dirty_pages_right
        /\ current_loaded_page' = p
        /\ diff_timer' = TRUE
        /\ timer_left' = DebounceInterval
        /\ IF merge_mode
           THEN SetEntered(EnterBoth(nd["left"], nd["right"]))
           ELSE /\ doc' = nd
                /\ UNCHANGED <<is_merge_mode, merge_cursors, original_text_backup,
                               resolved, episodes>>
        /\ last' = LastRec(op, "left", "", -1, <<>>, p)
        /\ ocr_text_full' = OcrTextFull(ocr_json[p])
        /\ ocr_char_map' = OcrCharMap(ocr_json[p])
        /\ UNCHANGED <<toolVars, diffDataVars, merge_mode, workerVars, has_changes,
                       since_edit, config_data>>

\* load_current_page with the page store as it stands.
LoadCurrentPage(p, op) ==
    /\ LoadPageFrom(pages_left, pages_right_text, p, op)
    /\ UNCHANGED global_undo_stack

\* prev_page: spin_page goes one page down, then the page is loaded.
PrevPage ==
    /\ current_loaded_page - 1 \in Pages
    /\ LoadCurrentPage(current_loaded_page - 1, "prev_page")

\* next_page: spin_page goes one page up, then the page is loaded.
NextPage ==
    /\ current_loaded_page + 1 \in Pages
    /\ LoadCurrentPage(current_loaded_page + 1, "next_page")

\* jump_page: Return pressed in spin_page; loads the page it shows, here the
\* page already loaded (a reload).
JumpPage == LoadCurrentPage(current_loaded_page, "jump_page")

\* ConfigManager.__init__ without a config file: the default project alone,
\* and active.  Of a project only its name is kept.
DefaultData ==
    [projects |-> <<[name |-> "Default Project"]>>,
     active_project |-> "Default Project"]

\* ------------------------------------------------------------------- Init
\* The window after construction, with texts a and b read for page 1 (every
\* other page absent from both files), the first diff done and applied.
InitWindow(a, b) ==
    /\ doc = [left |-> Enc(a), right |-> Enc(b)]
    /\ is_merge_mode = [s \in Side |-> FALSE]
    /\ merge_cursors = [s \in Side |-> <<>>]
    /\ original_text_backup = [s \in Side |-> None]
    /\ diff_opcodes = [s \in Side |-> GetOpcodes(a, b)]
    /\ other_text_content = [left |-> b, right |-> a]
    /\ merge_mode = FALSE
    /\ pages_left = [p \in Pages |-> IF p = 1 THEN a ELSE <<>>]
    /\ pages_right_text = [p \in Pages |-> IF p = 1 THEN b ELSE <<>>]
    /\ dirty_pages_left = {}
    /\ dirty_pages_right = {}
    /\ current_loaded_page = 1
    /\ is_updating_diff = FALSE
    /\ diff_timer = FALSE
    /\ timer_left = 0
    /\ since_edit = DebounceInterval
    /\ diff_worker = NoWorker
    /\ has_changes = [s \in Side |-> FALSE]
    /\ episodes = 0
    /\ resolved = [s \in Side |-> <<>>]
    /\ last = [op |-> "init", side |-> "left", action |-> "", target |-> -1,
               group |-> <<>>, page |-> 1, pre |-> [s \in Side |-> 0],
               idx |-> -1, mapped |-> -1, shown |-> -1,
               entry_text |-> <<>>, page_nums |-> <<>>]
    /\ ocr_text_full = OcrTextFull(ocr_json[1])
    /\ ocr_char_map = OcrCharMap(ocr_json[1])
    /\ global_undo_stack = <<>>
    /\ config_data = DefaultData

\* A mapper just constructed, over the OCR files given.
InitMapper(files) ==
    /\ ocr_json = files
    /\ cache = <<>>
    /\ returned = <<>>

\* stitch's None.
NoImage == [null |-> TRUE, width |-> 0, height |-> 0, tiles |-> <<>>]

\* A stitcher not called yet; images is what get_page_image can load.
InitStitcher(images) ==
    /\ page_images = images
    /\ pred_size = <<0, 0>>
    /\ stitched_img = NoImage

\* No export worker has been constructed.
NoExportWorker ==
    /\ entries = <<>>
    /\ force_overwrite = FALSE
    /\ is_running = TRUE
    /\ worker_pc = "none"
    /\ worker_i = 0
    /\ progress = <<>>
    /\ finished = <<>>
    /\ out_files = {}
    /\ stitch_log = <<>>

NoOcr == [p \in Pages |-> <<>>]

\* No OCR files and no export asked for: the merger has nothing to merge.
InitWith(a, b) ==
    /\ InitMapper(NoOcr)
    /\ InitWindow(a, b)
    /\ InitStitcher({})
    /\ NoExportWorker
    /\ boxes = <<>>
    /\ final_merged = <<>>

InitMerge ==
    \E a \in Texts, b \in Texts :
        /\ Len(a) + Len(b) <= MaxTotal
        /\ InitWith(a, b)

\* One reconciliation episode on the loaded page: the merge view is entered
\* once from the toolbar, spans are clicked in either editor, the view is left.
NextMerge ==
    \/ episodes = 0 /\ ToggleMergeViewOn
    \/ ToggleMergeViewOff
    \/ \E side \in Side, action \in {"apply", "reject"} :
           \E pos \in 0 .. Len(doc[side]) : MergeClick(side, pos, action)

SpecMerge == InitMerge /\ [][NextMerge]_vars


\* ------------------------------------------------------------ page loading
\* Longest text of a page at start-up in the runs that turn pages.
MaxPageLen == 1

InitPages ==
    \E a \in SeqsUpTo(Chars, MaxPageLen), b \in SeqsUpTo(Chars, MaxPageLen) :
        InitWith(a, b)

\* The merge view together with page navigation: pages are turned and
\* reloaded while the merge view is on or off.
NextPages ==
    \/ ToggleMergeViewOn
    \/ ToggleMergeViewOff
    \/ \E side \in Side, action \in {"apply", "reject"} :
           \E pos \in 0 .. Len(doc[side]) : MergeClick(side, pos, action)
    \/ PrevPage
    \/ NextPage
    \/ JumpPage

SpecPages == InitPages /\ [][NextPages]_vars

\* ------------------------------------------------------- the background diff
\* Longest text the user types into an editor in the runs of the diff worker.
MaxEditLen == 1

EditTexts == SeqsUpTo({"a", "b"}, MaxEditLen)

\* The user edits an editor (writable outside merge mode) so that it holds
\* text t: textChanged runs on_text_changed_left / on_text_changed_right,
\* which ends in deferred_run_diff.
UserEdit(side, t) ==
    /\ ~is_merge_mode[side]
    /\ Enc(t) # doc[side]
    /\ LET nd == [doc EXCEPT ![side] = Enc(t)]
       IN  /\ doc' = nd
           /\ OnTextChanged({side}, nd)
    /\ diff_timer' = TRUE
    /\ timer_left' = DebounceInterval
    /\ last' = LastRec("user_edit", side, "", -1, <<>>, current_loaded_page)
    /\ UNCHANGED <<sessionVars, toolVars,
                   ocrMapVars, is_merge_mode, merge_cursors, original_text_backup, diffDataVars,
                   merge_mode, workerVars, current_loaded_page, has_changes,
                   episodes, resolved>>

\* Variant: run_diff_async without the test of _is_updating_diff.
RunDiffAsyncUnguarded ==
    /\ diff_timer
    /\ diff_timer' = FALSE
    /\ is_updating_diff' = TRUE
    /\ diff_worker' = [pc |-> "started", text_l |-> Dec(doc["left"]),
                       text_r |-> Dec(doc["right"]), opcodes |-> <<>>]
    /\ last' = LastRec("run_diff_async", "left", "", -1, <<>>, current_loaded_page)
    /\ UNCHANGED <<sessionVars, toolVars, ocrMapVars, editorVars, diffDataVars, merge_mode,
                   storeVars, timer_left, since_edit, current_loaded_page,
                   has_changes, episodes, resolved>>

\* diff_timer.timeout -> run_diff_async: nothing while a diff is in flight,
\* else a DiffWorker is created on the editors' current texts and started.
RunDiffAsync ==
    /\ diff_timer
    /\ diff_timer' = FALSE
    /\ IF is_updating_diff
       THEN UNCHANGED workerVars
       ELSE /\ is_updating_diff' = TRUE
            /\ diff_worker' = [pc |-> "started", text_l |-> Dec(doc["left"]),
                               text_r |-> Dec(doc["right"]), opcodes |-> <<>>]
    /\ last' = LastRec("run_diff_async", "left", "", -1, <<>>, current_loaded_page)
    /\ UNCHANGED <<sessionVars, toolVars,
                   ocrMapVars, editorVars, diffDataVars, merge_mode, storeVars, timer_left,
                   since_edit, current_loaded_page, has_changes, episodes, resolved>>

\* DiffWorker.run, on the worker thread: the opcodes of the texts the worker
\* was created with; result_ready is emitted, finished follows.
DiffWorkerRun ==
    /\ diff_worker.pc = "started"
    /\ diff_worker' = [diff_worker EXCEPT
                          !.pc = "result_ready",
                          !.opcodes = GetOpcodes(diff_worker.text_l, diff_worker.text_r)]
    /\ last' = LastRec("DiffWorker.run", "left", "", -1, <<>>, current_loaded_page)
    /\ UNCHANGED <<sessionVars, toolVars,
                   ocrMapVars, editorVars, diffDataVars, merge_mode, storeVars,
                   current_loaded_page, is_updating_diff, diff_timer, timer_left,
                   since_edit, has_changes,
                   episodes, resolved>>

\* on_diff_finished, the slot of result_ready: the worker's opcodes are set on
\* both editors, each with the other editor's current text.
OnDiffFinished ==
    /\ diff_worker.pc = "result_ready"
    /\ diff_opcodes' = [s \in Side |-> diff_worker.opcodes]
    /\ other_text_content' = [left |-> Dec(doc["right"]), right |-> Dec(doc["left"])]
    /\ diff_worker' = [diff_worker EXCEPT !.pc = "finished"]
    /\ last' = LastRec("on_diff_finished", "left", "", -1, <<>>, current_loaded_page)
    /\ UNCHANGED <<sessionVars, toolVars,
                   ocrMapVars, editorVars, merge_mode, storeVars, current_loaded_page,
                   is_updating_diff, diff_timer, timer_left, since_edit,
                   has_changes, episodes, resolved>>

\* on_diff_thread_finished, the slot of the thread's finished signal.
OnDiffThreadFinished ==
    /\ diff_worker.pc = "finished"
    /\ is_updating_diff' = FALSE
    /\ diff_worker' = NoWorker
    /\ last' = LastRec("on_diff_thread_finished", "left", "", -1, <<>>,
                       current_loaded_page)
    /\ UNCHANGED <<sessionVars, toolVars,
                   ocrMapVars, editorVars, diffDataVars, merge_mode, storeVars,
                   current_loaded_page, diff_timer, timer_left, since_edit,
                   has_changes, episodes, resolved>>

InitDiff == \E a \in EditTexts, b \in EditTexts : InitWith(a, b)

\* Editing outside the merge view with the debounced background diff.
NextDiff ==
    \/ \E side \in Side, t \in EditTexts : UserEdit(side, t)
    \/ RunDiffAsync
    \/ DiffWorkerRun
    \/ OnDiffFinished
    \/ OnDiffThreadFinished

SpecDiff == InitDiff /\ [][NextDiff]_vars

\* ------------------------------------------------- global replace and undo
\* global_undo_stack keeps this many snapshots at most.
UndoLimit == 10

\* Most snapshots taken in the runs that undo.
MaxUndo == 1

\* regex.subn(repl, txt) for a pattern that is the one literal character pat
\* and a replacement that is the literal text rep: the new text ...
RECURSIVE SubText(_, _, _)
SubText(txt, pat, rep) ==
    IF txt = <<>> THEN <<>>
    ELSE (IF Head(txt) = pat THEN rep ELSE <<Head(txt)>>) \o SubText(Tail(txt), pat, rep)

\* ... and the number of replacements made.
SubCount(txt, pat) == Cardinality({k \in DOMAIN txt : txt[k] = pat})

\* push_global_undo: a copy of both page stores goes on the stack, the oldest
\* snapshot is dropped beyond the limit.
PushGlobalUndo(stack, store_left, store_right) ==
    LET pushed == Append(stack, [left |-> store_left, right |-> store_right])
    IN  IF Len(pushed) > UndoLimit THEN Tail(pushed) ELSE pushed

\* on_replace_all_global (confirmed) -> _batch_replace(pages, is_global=True):
\* save_current_page_data; push_global_undo; every page of the target store
\* in which the pattern occurs is rewritten and marked dirty; force_ui_reload
\* sets the editors from the store (textChanged is ignored while loading) and
\* starts the debounce timer.
ReplaceAllGlobal(target_is_left, pat, rep) ==
    LET q == current_loaded_page
        current_left  == Dec(doc["left"])
        current_right == Dec(doc["right"])
        saved_left  == IF current_left # pages_left[q]
                       THEN [pages_left EXCEPT ![q] = current_left] ELSE pages_left
        saved_right == IF combo_source = "Text File B" /\ current_right # pages_right_text[q]
                       THEN [pages_right_text EXCEPT ![q] = current_right]
                       ELSE pages_right_text
        saved_dirty_left  == IF current_left # pages_left[q]
                             THEN dirty_pages_left \cup {q} ELSE dirty_pages_left
        saved_dirty_right ==
            IF combo_source = "Text File B" /\ current_right # pages_right_text[q]
            THEN dirty_pages_right \cup {q} ELSE dirty_pages_right
        target_dict == IF target_is_left THEN saved_left ELSE saved_right
        hit == {p \in DOMAIN target_dict : SubCount(target_dict[p], pat) > 0}
        replaced == [p \in DOMAIN target_dict |->
                        IF p \in hit THEN SubText(target_dict[p], pat, rep)
                        ELSE target_dict[p]]
    IN  /\ Len(global_undo_stack) < MaxUndo
        /\ global_undo_stack' = PushGlobalUndo(global_undo_stack, saved_left, saved_right)
        /\ pages_left' = IF target_is_left THEN replaced ELSE saved_left
        /\ pages_right_text' = IF target_is_left THEN saved_right ELSE replaced
        /\ dirty_pages_left' = IF target_is_left THEN saved_dirty_left \cup hit
                               ELSE saved_dirty_left
        /\ dirty_pages_right' = IF target_is_left THEN saved_dirty_right
                                ELSE saved_dirty_right \cup hit
        /\ doc' = [left  |-> Enc(pages_left'[q]),
                   right |-> IF combo_source = "Text File B"
                             THEN Enc(pages_right_text'[q]) ELSE doc["right"]]
        /\ diff_timer' = TRUE
        /\ timer_left' = DebounceInterval
        /\ last' = LastRec("replace_all_global",
                           IF target_is_left THEN "left" ELSE "right", "", -1, <<>>, q)
        /\ UNCHANGED <<toolVars, ocrMapVars, is_merge_mode, merge_cursors,
                       original_text_backup, diffDataVars, merge_mode, workerVars,
                       current_loaded_page, has_changes, since_edit, episodes,
                       resolved, config_data>>

\* undo_global (the warning about manual edits, when shown, answered Yes):
\* the newest snapshot is popped, both page stores are replaced by it, and
\* reload_displayed_texts runs load_current_page for the loaded page.
UndoGlobal ==
    /\ global_undo_stack # <<>>
    /\ LET snapshot == global_undo_stack[Len(global_undo_stack)]
       IN  /\ global_undo_stack' =
                  SubSeq(global_undo_stack, 1, Len(global_undo_stack) - 1)
           /\ LoadPageFrom(snapshot.left, snapshot.right, current_loaded_page,
                           "undo_global")

InitUndo == \E a \in EditTexts, b \in EditTexts : InitWith(a, b)

\* Global replaces and their undo, outside the merge view, between manual
\* edits and page turns.
NextUndo ==
    \/ \E side \in Side, t \in EditTexts : UserEdit(side, t)
    \/ PrevPage
    \/ NextPage
    \/ \E target_is_left \in BOOLEAN, pat \in {"a", "b"}, rep \in EditTexts :
           ReplaceAllGlobal(target_is_left, pat, rep)
    \/ UndoGlobal

SpecUndo == InitUndo /\ [][NextUndo]_vars

\* ------------------------------------------------------- ConfigManager
\* Most projects in the list in the runs that manage projects.
MaxProjects == 3

ProjectNames == {"Default Project", "p1", "p2", "p3", "p4"}

\* get_project: <<p>> for the first project p of that name, <<>> (None)
\* without one.
GetProject(name) ==
    LET hits == {i \in DOMAIN config_data.projects :
                    config_data.projects[i].name = name}
    IN  IF hits = {} THEN <<>>
        ELSE <<config_data.projects[CHOOSE i \in hits : \A j \in hits : i <= j]>>

\* What a method of ConfigManager leaves alone; last.action is the name it
\* was called with.  (save writes data to the config file.)
ConfigCall(op, name) ==
    /\ last' = LastRec(op, "left", name, -1, <<>>, current_loaded_page)
    /\ UNCHANGED <<windowVars, toolVars, global_undo_stack>>

\* set_active_project: only a name in the list becomes active.
SetActiveProject(name) ==
    /\ config_data' = IF GetProject(name) # <<>>
                      THEN [config_data EXCEPT !.active_project = name]
                      ELSE config_data
    /\ ConfigCall("set_active_project", name)

\* create_project: refused for a name in the list, else a copy of the
\* default project with that name is appended.
CreateProject(name) ==
    /\ Len(config_data.projects) < MaxProjects
    /\ config_data' = IF GetProject(name) # <<>> THEN config_data
                      ELSE [config_data EXCEPT
                               !.projects = Append(@, [name |-> name])]
    /\ ConfigCall("create_project", name)

\* Variant: the only project can be deleted too.
DeleteProjectAnyLength(name) ==
    /\ LET projects == SelectSeq(config_data.projects, LAMBDA p : p.name # name)
       IN  config_data' =
               [projects |-> projects,
                active_project |->
                    IF config_data.active_project = name /\ projects # <<>>
                    THEN projects[1].name
                    ELSE config_data.active_project]
    /\ ConfigCall("delete_project", name)

\* delete_project: refused when one project is left; else the projects of
\* that name are dropped, and when it was the active one the first project
\* left becomes active.
DeleteProject(name) ==
    /\ config_data' =
           IF Len(config_data.projects) <= 1 THEN config_data
           ELSE LET projects == SelectSeq(config_data.projects,
                                          LAMBDA p : p.name # name)
                IN  [projects |-> projects,
                     active_project |->
                         IF config_data.active_project = name
                         THEN projects[1].name
                         ELSE config_data.active_project]
    /\ ConfigCall("delete_project", name)

\* The manager constructed without a config file, beside a window with
\* nothing loaded.
InitConfig == InitWith(<<>>, <<>>)

\* Projects are created, deleted and made active from the project dialog.
NextConfig ==
    \E name \in ProjectNames :
        \/ SetActiveProject(name)
        \/ CreateProject(name)
        \/ DeleteProject(name)

SpecConfig == InitConfig /\ [][NextConfig]_vars

\* The differ on the page texts: the merge view is entered and left without
\* a click, and the diff worker started by the debounce timer runs on the
\* editors' texts.
NextOpcodes ==
    \/ episodes = 0 /\ ToggleMergeViewOn
    \/ ToggleMergeViewOff
    \/ RunDiffAsync
    \/ DiffWorkerRun
    \/ OnDiffFinished
    \/ OnDiffThreadFinished

SpecOpcodes == InitMerge /\ [][NextOpcodes]_vars


\* --------------------------------------------------------- the debounce timer
\* One time unit passes while the debounce timer runs and has not expired.
Tick ==
    /\ diff_timer
    /\ timer_left > 0
    /\ timer_left' = timer_left - 1
    /\ since_edit' = Min(since_edit + 1, DebounceInterval)
    /\ last' = LastRec("tick", "left", "", -1, <<>>, current_loaded_page)
    /\ UNCHANGED <<sessionVars, toolVars,
                   ocrMapVars, editorVars, diffDataVars, merge_mode, storeVars, workerVars,
                   current_loaded_page, diff_timer, has_changes, episodes, resolved>>

\* The single-shot timer expires: its timeout signal runs run_diff_async.
DiffTimerTimeout ==
    /\ timer_left = 0
    /\ RunDiffAsync

\* Editing the left editor with time passing: the timer fires when its
\* interval has run out, the worker thread takes any amount of time.
NextDebounce ==
    \/ \E t \in EditTexts : UserEdit("left", t)
    \/ Tick
    \/ DiffTimerTimeout
    \/ DiffWorkerRun
    \/ OnDiffFinished
    \/ OnDiffThreadFinished

SpecDebounce == InitDiff /\ [][NextDebounce]_vars


\* -------------------------------------------------------- position mapping
\* Variant: every character counted as one UTF-16 unit.
ToPyPosOneUnit(full_text, qt_pos) == Min(qt_pos, Len(full_text))

\* to_py_pos: the index of the first character that has at least qt_pos
\* UTF-16 units before it, the length of the text when there is none.
ToPyPos(full_text, qt_pos) ==
    LET units_before(i) == Len(Enc(SubSeq(full_text, 1, i)))
        hits == {i \in 0 .. Len(full_text) - 1 : units_before(i) >= qt_pos}
    IN  IF hits = {} THEN Len(full_text)
        ELSE CHOOSE i \in hits : \A k \in hits : i <= k

\* to_qt_pos: the UTF-16 units of full_text[:py_pos].
ToQtPos(full_text, py_pos) == Len(Enc(Slice(full_text, 0, py_pos)))

\* Variant: a changed region snaps to the end of its destination range.
MapInOpcodesSnapEnd(opcodes, py_idx, is_left_source) ==
    LET src1(op) == IF is_left_source THEN op[2] ELSE op[4]
        src2(op) == IF is_left_source THEN op[3] ELSE op[5]
        dst1(op) == IF is_left_source THEN op[4] ELSE op[2]
        dst2(op) == IF is_left_source THEN op[5] ELSE op[3]
        within == {k \in 1 .. Len(opcodes) :
                     src1(opcodes[k]) <= py_idx /\ py_idx <= src2(opcodes[k])}
    IN  IF within = {} THEN -1
        ELSE LET k == CHOOSE h \in within : \A g \in within : h <= g
                 op == opcodes[k]
             IN  IF op[1] = "equal"
                 THEN Min(dst1(op) + (py_idx - src1(op)), dst2(op))
                 ELSE dst2(op)

\* Variant: a position no opcode holds maps to 0.
MapInOpcodesZero(opcodes, py_idx, is_left_source) ==
    LET src1(op) == IF is_left_source THEN op[2] ELSE op[4]
        src2(op) == IF is_left_source THEN op[3] ELSE op[5]
        dst1(op) == IF is_left_source THEN op[4] ELSE op[2]
        dst2(op) == IF is_left_source THEN op[5] ELSE op[3]
        within == {k \in 1 .. Len(opcodes) :
                     src1(opcodes[k]) <= py_idx /\ py_idx <= src2(opcodes[k])}
    IN  IF within = {} THEN 0
        ELSE LET k == CHOOSE h \in within : \A g \in within : h <= g
                 op == opcodes[k]
             IN  IF op[1] = "equal"
                 THEN Min(dst1(op) + (py_idx - src1(op)), dst2(op))
                 ELSE dst1(op)

\* Variant: an Equal opcode maps every position to the start of its
\* destination range.
MapInOpcodesNoOffset(opcodes, py_idx, is_left_source) ==
    LET src1(op) == IF is_left_source THEN op[2] ELSE op[4]
        src2(op) == IF is_left_source THEN op[3] ELSE op[5]
        dst1(op) == IF is_left_source THEN op[4] ELSE op[2]
        within == {k \in 1 .. Len(opcodes) :
                     src1(opcodes[k]) <= py_idx /\ py_idx <= src2(opcodes[k])}
    IN  IF within = {} THEN -1
        ELSE LET k == CHOOSE h \in within : \A g \in within : h <= g
             IN  dst1(opcodes[k])

\* The loop of get_mapped_index: the first opcode whose source range, both
\* ends included, holds py_idx decides; -1 when there is none.
MapInOpcodes(opcodes, py_idx, is_left_source) ==
    LET src1(op) == IF is_left_source THEN op[2] ELSE op[4]
        src2(op) == IF is_left_source THEN op[3] ELSE op[5]
        dst1(op) == IF is_left_source THEN op[4] ELSE op[2]
        dst2(op) == IF is_left_source THEN op[5] ELSE op[3]
        within == {k \in 1 .. Len(opcodes) :
                     src1(opcodes[k]) <= py_idx /\ py_idx <= src2(opcodes[k])}
    IN  IF within = {} THEN -1
        ELSE LET k == CHOOSE h \in within : \A g \in within : h <= g
                 op == opcodes[k]
             IN  IF op[1] = "equal"
                 THEN Min(dst1(op) + (py_idx - src1(op)), dst2(op))
                 ELSE dst1(op)

\* get_mapped_index(qt_idx, is_left_source) on the editors' current texts and
\* the opcodes last set on the left editor.
GetMappedIndex(qt_idx, is_left_source) ==
    LET src_text == Dec(doc[IF is_left_source THEN "left" ELSE "right"])
        dst_text == Dec(doc[IF is_left_source THEN "right" ELSE "left"])
        mapped_py_idx == MapInOpcodes(diff_opcodes["left"],
                                      ToPyPos(src_text, qt_idx), is_left_source)
    IN  IF mapped_py_idx = -1 THEN -1 ELSE ToQtPos(dst_text, mapped_py_idx)

\* on_cursor_left / on_cursor_right -> request_highlight_other: the cursor of
\* editor `side` is at idx; the other editor's line at the mapped position is
\* highlighted, or its highlight cleared when there is no mapping.
RequestHighlightOther(side, idx) ==
    /\ IsCursorPosition(doc[side], idx)
    /\ LET mapped_idx == GetMappedIndex(idx, side = "left")
       IN  last' = [LastRec("request_highlight_other", side, "", -1, <<>>,
                            current_loaded_page)
                       EXCEPT !.idx = idx, !.mapped = mapped_idx,
                              !.shown = IF mapped_idx >= 0 THEN mapped_idx ELSE -1]
    /\ UNCHANGED <<sessionVars, toolVars,
                   ocrMapVars, editorVars, diffDataVars, merge_mode, storeVars, workerVars,
                   current_loaded_page, diff_timer, timer_left, since_edit,
                   has_changes, episodes, resolved>>

\* on_image_bbox_click with the Text B editor as target: the clicked block's
\* index in the left text, left_py_idx, is mapped left -> right and the right
\* editor's cursor is set there unless the mapping is -1.
OnImageBboxClick(left_py_idx) ==
    LET idx == ToQtPos(Dec(doc["left"]), left_py_idx)
        right_qt_pos == GetMappedIndex(idx, TRUE)
    IN  /\ last' = [LastRec("on_image_bbox_click", "left", "", -1, <<>>,
                            current_loaded_page)
                       EXCEPT !.idx = idx, !.mapped = right_qt_pos,
                              !.shown = IF right_qt_pos # -1 THEN right_qt_pos ELSE -1]
        /\ UNCHANGED <<sessionVars, toolVars,
                       ocrMapVars, editorVars, diffDataVars, merge_mode, storeVars, workerVars,
                       current_loaded_page, diff_timer, timer_left, since_edit,
                       has_changes, episodes, resolved>>

\* Cursor moves and image clicks on a page, before and after one edit that
\* leaves the opcodes of the last diff behind the texts.
NextMap ==
    \/ \E side \in Side : \E idx \in 0 .. Len(doc[side]) :
           RequestHighlightOther(side, idx)
    \/ \E left_py_idx \in 0 .. MaxLen : OnImageBboxClick(left_py_idx)
    \/ /\ dirty_pages_left \cup dirty_pages_right = {}
       /\ \E side \in Side, t \in EditTexts : UserEdit(side, t)

SpecMap == InitMerge /\ [][NextMap]_vars


\* ------------------------------------------------------------- BBoxMerger
\* A box is [bbox |-> <<x1, y1, x2, y2>>, page |-> p, label |-> l], as the
\* mapper hands it over.
MaxBoxes == 3

\* Rectangles around the merge thresholds: left edges 0, 2, 20, 48, 50 and
\* 300 apart, vertical gaps of -30, 2, 20 and 50, centres 3.5, 16.5, 20 and
\* more apart.
BoxRects == {<<100, 100, 200, 130>>, <<102, 132, 205, 160>>, <<400, 100, 500, 130>>,
             <<150, 180, 260, 210>>, <<100, 180, 200, 210>>, <<120, 100, 220, 130>>}

BoxPages == {1, 2}

Labels == {"text", "vertical_text"}

Boxes == [bbox : BoxRects, page : BoxPages, label : Labels]

BoxLists == SeqsUpTo(Boxes, MaxBoxes)

Abs(n) == IF n < 0 THEN -n ELSE n

\* One entry of clean_boxes.
CleanBox(b) ==
    [x |-> b.bbox[1], y |-> b.bbox[2],
     w |-> b.bbox[3] - b.bbox[1], h |-> b.bbox[4] - b.bbox[2],
     r |-> b.bbox[3], b |-> b.bbox[4], page |-> b.page]

\* Variant: the merged box keeps the accumulator's left and right edge.
UnionBoxKeepWidth(curr, nex) ==
    [x |-> curr.x, y |-> Min(curr.y, nex.y),
     w |-> curr.r - curr.x,
     h |-> Max(curr.b, nex.b) - Min(curr.y, nex.y),
     r |-> curr.r, b |-> Max(curr.b, nex.b), page |-> curr.page]

\* The merged box both loops build: new_x, new_y, new_r, new_b.
UnionBox(curr, nex) ==
    [x |-> Min(curr.x, nex.x), y |-> Min(curr.y, nex.y),
     w |-> Max(curr.r, nex.r) - Min(curr.x, nex.x),
     h |-> Max(curr.b, nex.b) - Min(curr.y, nex.y),
     r |-> Max(curr.r, nex.r), b |-> Max(curr.b, nex.b), page |-> curr.page]

\* Variant: the thresholds themselves still merge.
HorizontalRuleInclusive(curr, nex) ==
    LET x_diff == Abs(curr.x - nex.x)
        y_gap == nex.y - curr.b
    IN  x_diff <= 50 /\ y_gap <= 50

\* _merge_horizontal's test: x_diff < 50 and y_gap < 50.
HorizontalRule(curr, nex) ==
    LET x_diff == Abs(curr.x - nex.x)
        y_gap == nex.y - curr.b
    IN  x_diff < 50 /\ y_gap < 50

\* _merge_vertical's test, abs(x_center_1 - x_center_2) < 20 with
\* x_center = x + w / 2, on the doubled centres.
VerticalRule(curr, nex) ==
    LET x_center_1_twice == 2 * curr.x + curr.w
        x_center_2_twice == 2 * nex.x + nex.w
    IN  Abs(x_center_1_twice - x_center_2_twice) < 2 * 20

\* _merge_horizontal: st[i] is (curr, merged) after the loop has handled
\* clean_boxes[i]; the last curr is appended after the loop.
MergeHorizontal(page_boxes) ==
    LET clean_boxes == [k \in 1 .. Len(page_boxes) |-> CleanBox(page_boxes[k])]
        st[i \in 1 .. Len(page_boxes)] ==
            IF i = 1 THEN [curr |-> clean_boxes[1], merged |-> <<>>]
            ELSE LET curr == st[i - 1].curr
                     nex == clean_boxes[i]
                 IN  IF HorizontalRule(curr, nex)
                     THEN [curr |-> UnionBox(curr, nex), merged |-> st[i - 1].merged]
                     ELSE [curr |-> nex, merged |-> Append(st[i - 1].merged, curr)]
    IN  IF page_boxes = <<>> THEN <<>>
        ELSE Append(st[Len(page_boxes)].merged, st[Len(page_boxes)].curr)

\* _merge_vertical: the same loop with the same-column test.
MergeVertical(page_boxes) ==
    LET clean_boxes == [k \in 1 .. Len(page_boxes) |-> CleanBox(page_boxes[k])]
        st[i \in 1 .. Len(page_boxes)] ==
            IF i = 1 THEN [curr |-> clean_boxes[1], merged |-> <<>>]
            ELSE LET curr == st[i - 1].curr
                     nex == clean_boxes[i]
                 IN  IF VerticalRule(curr, nex)
                     THEN [curr |-> UnionBox(curr, nex), merged |-> st[i - 1].merged]
                     ELSE [curr |-> nex, merged |-> Append(st[i - 1].merged, curr)]
    IN  IF page_boxes = <<>> THEN <<>>
        ELSE Append(st[Len(page_boxes)].merged, st[Len(page_boxes)].curr)

\* Variant: a page takes the boxes of the pages after it as well.
PageBoxesFrom(bs, p) == SelectSeq(bs, LAMBDA b : b.page >= p)

\* by_page[p]: the boxes of page p in input order.
PageBoxes(bs, p) == SelectSeq(bs, LAMBDA b : b.page = p)

\* Variant: the label of the page's first box decides.
IsVerticalFirstBox(page_boxes) == page_boxes[1].label = "vertical_text"

\* is_vertical = any(b['label'] == 'vertical_text' for b in page_boxes)
IsVertical(page_boxes) ==
    \E k \in 1 .. Len(page_boxes) : page_boxes[k].label = "vertical_text"

\* The loop over sorted(by_page.keys()), for the pages in ps.
RECURSIVE MergePages(_, _)
MergePages(bs, ps) ==
    IF ps = {} THEN <<>>
    ELSE LET p == CHOOSE q \in ps : \A o \in ps : q <= o
             page_boxes == PageBoxes(bs, p)
             merged == IF IsVertical(page_boxes) THEN MergeVertical(page_boxes)
                       ELSE MergeHorizontal(page_boxes)
         IN  merged \o MergePages(bs, ps \ {p})

\* BBoxMerger.merge
Merge(bs) ==
    IF bs = <<>> THEN <<>>
    ELSE MergePages(bs, {bs[k].page : k \in 1 .. Len(bs)})

\* merged = self.merger.merge(bboxes)
CallMerge ==
    /\ last.op = "init"
    /\ final_merged' = Merge(boxes)
    /\ last' = LastRec("merge", "left", "", -1, <<>>, current_loaded_page)
    /\ UNCHANGED <<boxes, mapperVars, stitcherVars, exportVars, windowVars, sessionVars>>

\* The merger is handed any list of up to MaxBoxes boxes.
InitBoxes ==
    /\ InitMapper(NoOcr)
    /\ InitWindow(<<>>, <<>>)
    /\ InitStitcher({})
    /\ NoExportWorker
    /\ boxes \in BoxLists
    /\ final_merged = <<>>

NextBoxes == CallMerge

SpecBoxes == InitBoxes /\ [][NextBoxes]_vars


\* -------------------------------------------------------- TextToBBoxMapper
\* load_page_data's return value with cache c: the cached list, else the
\* blocks the page's file yields ([] when there is no such file).
PageData(c, page_num) ==
    IF page_num \in DOMAIN c THEN c[page_num]
    ELSE IF page_num \in Pages THEN ocr_json[page_num] ELSE <<>>

\* Variant: the file is read again and the entry overwritten.
CacheAfterLoadReread(c, page_num) ==
    LET data == IF page_num \in Pages THEN ocr_json[page_num] ELSE <<>>
    IN  [q \in DOMAIN c \cup {page_num} |-> IF q = page_num THEN data ELSE c[q]]

\* self.cache after load_page_data(page_num) on cache c.
CacheAfterLoad(c, page_num) ==
    IF page_num \in DOMAIN c THEN c
    ELSE [q \in DOMAIN c \cup {page_num} |->
              IF q = page_num THEN PageData(c, page_num) ELSE c[q]]

\* get_page_text_map's loop: st[i] is (full_text, char_map) after block i
\* (block indices count from 0).
TextMapOf(blocks) ==
    LET st[i \in 0 .. Len(blocks)] ==
            IF i = 0 THEN [full_text |-> <<>>, char_map |-> <<>>]
            ELSE LET txt == blocks[i].text
                 IN  [full_text |-> st[i - 1].full_text \o txt,
                      char_map |-> st[i - 1].char_map
                                       \o [k \in 1 .. Len(txt) |-> i - 1]]
    IN  [blocks |-> blocks,
         full_text |-> st[Len(blocks)].full_text,
         char_map |-> st[Len(blocks)].char_map]

\* str.strip() over the model's characters, " " the only whitespace.
RECURSIVE LStrip(_)
LStrip(t) == IF t # <<>> /\ Head(t) = " " THEN LStrip(Tail(t)) ELSE t

RECURSIVE RStrip(_)
RStrip(t) ==
    IF t # <<>> /\ t[Len(t)] = " " THEN RStrip(SubSeq(t, 1, Len(t) - 1)) ELSE t

Strip(t) == RStrip(LStrip(t))

\* len(chunk.encode('utf-8')) == len(chunk) for a chunk of one character.
LikelyAscii(c) == c # "S"

\* The matching blocks find_bboxes goes on with: n > 0, and a single
\* character only when it is not ASCII.
RetainedRuns(clean_entry, page_text) ==
    SelectSeq(GetMatchingBlocks(clean_entry, page_text),
              LAMBDA x : /\ x[3] # 0
                         /\ ~(x[3] < 2 /\ LikelyAscii(clean_entry[x[1] + 1])))

\* Variant: every touched block is appended, recorded before or not.
RECURSIVE AppendAffectedAll(_, _, _, _)
AppendAffectedAll(affected, page_num, blocks, acc) ==
    IF affected = <<>> THEN acc
    ELSE LET block_idx == Head(affected)
             key == <<page_num, block_idx>>
             b == blocks[block_idx + 1]
         IN  AppendAffectedAll(Tail(affected), page_num, blocks,
                 [matched_block_indices |-> acc.matched_block_indices \cup {key},
                  result_boxes |->
                      Append(acc.result_boxes,
                             [bbox |-> b.bbox, page |-> page_num,
                              label |-> b.block_label, sort_key |-> key])])

\* for block_idx in affected: the block is appended unless its key is in
\* matched_block_indices.
RECURSIVE AppendAffected(_, _, _, _)
AppendAffected(affected, page_num, blocks, acc) ==
    IF affected = <<>> THEN acc
    ELSE LET block_idx == Head(affected)
             key == <<page_num, block_idx>>
             b == blocks[block_idx + 1]
         IN  AppendAffected(Tail(affected), page_num, blocks,
                 IF key \in acc.matched_block_indices THEN acc
                 ELSE [matched_block_indices |-> acc.matched_block_indices \cup {key},
                       result_boxes |->
                           Append(acc.result_boxes,
                                  [bbox |-> b.bbox, page |-> page_num,
                                   label |-> b.block_label, sort_key |-> key])])

\* for i, j, n in matcher.get_matching_blocks()
RECURSIVE RunsLoop(_, _, _, _, _)
RunsLoop(runs, page_num, blocks, char_map, acc) ==
    IF runs = <<>> THEN acc
    ELSE LET j == Head(runs)[2]
             n == Head(runs)[3]
             affected == Slice(char_map, j, j + n)
         IN  RunsLoop(Tail(runs), page_num, blocks, char_map,
                      AppendAffected(affected, page_num, blocks, acc))

\* for page_num in page_nums, on cache c
RECURSIVE PagesLoop(_, _, _, _)
PagesLoop(clean_entry, page_nums, c, acc) ==
    IF page_nums = <<>> THEN acc
    ELSE LET page_num == Head(page_nums)
             m == TextMapOf(PageData(c, page_num))
             after == IF m.full_text = <<>> THEN acc
                      ELSE RunsLoop(RetainedRuns(clean_entry, m.full_text),
                                    page_num, m.blocks, m.char_map, acc)
         IN  PagesLoop(clean_entry, Tail(page_nums), CacheAfterLoad(c, page_num), after)

KeyLess(k1, k2) == k1[1] < k2[1] \/ (k1[1] = k2[1] /\ k1[2] < k2[2])

\* list.sort(key=sort_key): ascending and stable.
RECURSIVE SortBySortKey(_)
SortBySortKey(bs) ==
    IF bs = <<>> THEN <<>>
    ELSE LET least == CHOOSE k \in 1 .. Len(bs) :
                         \A h \in 1 .. Len(bs) :
                             \/ KeyLess(bs[k].sort_key, bs[h].sort_key)
                             \/ (~KeyLess(bs[h].sort_key, bs[k].sort_key) /\ k <= h)
         IN  <<bs[least]>> \o SortBySortKey(SubSeq(bs, 1, least - 1)
                                               \o SubSeq(bs, least + 1, Len(bs)))

\* find_bboxes' return value on cache c.
FindBboxes(entry_text, page_nums, c) ==
    LET clean_entry == Strip(entry_text)
    IN  IF clean_entry = <<>> THEN <<>>
        ELSE SortBySortKey(
                 PagesLoop(clean_entry, page_nums, c,
                           [matched_block_indices |-> {}, result_boxes |-> <<>>])
                     .result_boxes)

\* self.cache after find_bboxes: every page of page_nums has been loaded,
\* unless the entry text was blank.
RECURSIVE CacheAfterPages(_, _)
CacheAfterPages(c, page_nums) ==
    IF page_nums = <<>> THEN c
    ELSE CacheAfterPages(CacheAfterLoad(c, Head(page_nums)), Tail(page_nums))

LoadPageDataCall(page_num) ==
    /\ returned' = PageData(cache, page_num)
    /\ cache' = CacheAfterLoad(cache, page_num)
    /\ last' = LastRec("load_page_data", "left", "", -1, <<>>, page_num)
    /\ UNCHANGED <<ocr_json, mergerVars, stitcherVars, exportVars, windowVars, sessionVars>>

GetPageTextMapCall(page_num) ==
    /\ returned' = TextMapOf(PageData(cache, page_num))
    /\ cache' = CacheAfterLoad(cache, page_num)
    /\ last' = LastRec("get_page_text_map", "left", "", -1, <<>>, page_num)
    /\ UNCHANGED <<ocr_json, mergerVars, stitcherVars, exportVars, windowVars, sessionVars>>

FindBboxesCall(entry_text, page_nums) ==
    /\ returned' = FindBboxes(entry_text, page_nums, cache)
    /\ cache' = IF Strip(entry_text) = <<>> THEN cache
                ELSE CacheAfterPages(cache, page_nums)
    /\ last' = [LastRec("find_bboxes", "left", "", -1, <<>>, current_loaded_page)
                   EXCEPT !.entry_text = entry_text, !.page_nums = page_nums]
    /\ UNCHANGED <<ocr_json, mergerVars, stitcherVars, exportVars, windowVars, sessionVars>>

\* Bounds of the OCR files and of the entries looked up in them.
MaxBlocks == 2

MaxBlockLen == 2

MaxOcrChars == 3

MaxEntryLen == 3

MaxPageNums == 2

TextBlock(text) == [text |-> text, bbox |-> <<0, 0, 10, 10>>, block_label |-> "text"]

BlockTexts == SeqsUpTo({"a", "S"}, MaxBlockLen)

BlockLists == SeqsUpTo({TextBlock(t) : t \in BlockTexts}, MaxBlocks)

RECURSIVE TotalLen(_)
TotalLen(blocks) ==
    IF blocks = <<>> THEN 0 ELSE Len(Head(blocks).text) + TotalLen(Tail(blocks))

RECURSIVE FilesLen(_, _)
FilesLen(f, n) == IF n = 0 THEN 0 ELSE TotalLen(f[n]) + FilesLen(f, n - 1)

\* The OCR files: up to MaxBlocks blocks a page, MaxOcrChars characters in all.
OcrFiles ==
    {f \in [Pages -> {bl \in BlockLists : TotalLen(bl) <= MaxOcrChars}] :
        FilesLen(f, NumPages) <= MaxOcrChars}

EntryTexts == SeqsUpTo({"a", "S", " "}, MaxEntryLen)

PageNumLists == SeqsUpTo(Pages, MaxPageNums)

InitResolver ==
    /\ \E f \in OcrFiles : InitMapper(f)
    /\ InitWindow(<<>>, <<>>)
    /\ InitStitcher({})
    /\ NoExportWorker
    /\ boxes = <<>>
    /\ final_merged = <<>>

\* One call of a mapper just constructed.
NextResolver ==
    \/ /\ last.op = "init"
       /\ \E p \in Pages : LoadPageDataCall(p)
    \/ /\ last.op = "init"
       /\ \E p \in Pages : GetPageTextMapCall(p)
    \/ /\ last.op = "init"
       /\ \E t \in EntryTexts, ps \in PageNumLists : FindBboxesCall(t, ps)

SpecResolver == InitResolver /\ [][NextResolver]_vars

\* Pages are shown in the window, which builds ocr_char_map for each, and a
\* mapper builds the text maps of the same pages.
NextIndex ==
    \/ PrevPage
    \/ NextPage
    \/ \E p \in Pages : GetPageTextMapCall(p)

SpecIndex == InitResolver /\ [][NextIndex]_vars

\* ------------------------------------------------- highlighting a bbox
\* The rectangle set_highlight_bbox is called with for an entry's bbox
\* [x1, y1, x2, y2].
HighlightRect(bbox) ==
    IF Len(bbox) = 4
    THEN <<bbox[1], bbox[2], bbox[3] - bbox[1], bbox[4] - bbox[2]>>
    ELSE <<0, 0, 0, 0>>

\* The loop over ocr_char_map of check_auto_scroll_bbox (step 2) and of
\* _handle_right_editor_ocr_scroll: the first entry with
\* start_index <= idx <= end_index + 1; 0 when there is none.
BBoxLookup(char_map, idx) ==
    LET hits == {k \in DOMAIN char_map :
                    /\ char_map[k].start_index <= idx
                    /\ idx <= char_map[k].end_index + 1}
    IN  IF hits = {} THEN 0 ELSE CHOOSE k \in hits : \A j \in hits : k <= j

\* check_auto_scroll_bbox once the cursor has been mapped to the position
\* target_ocr_idx of the OCR text (for the right editor showing the OCR text,
\* _handle_right_editor_ocr_scroll with py_idx): nothing without OCR data;
\* else the entry found is highlighted on the page image.  last.idx is the
\* position, last.mapped the entry chosen (0: none), last.group the rectangle
\* highlighted.
CheckAutoScrollBBox(target_ocr_idx) ==
    /\ ocr_json[current_loaded_page] # <<>>
    /\ LET k == BBoxLookup(ocr_char_map, target_ocr_idx)
       IN  last' = [LastRec("check_auto_scroll_bbox", "left", "", -1,
                            IF k = 0 THEN <<>> ELSE HighlightRect(ocr_char_map[k].bbox),
                            current_loaded_page)
                       EXCEPT !.idx = target_ocr_idx, !.mapped = k]
    /\ UNCHANGED <<sessionVars, toolVars, ocrMapVars, editorVars, diffDataVars, merge_mode,
                   storeVars, workerVars, timer_left, since_edit, diff_timer,
                   current_loaded_page, has_changes, episodes, resolved>>

\* The blocks of a page laid out one under the other, each with its own bbox.
PlacedBlocks(blocks) ==
    [i \in DOMAIN blocks |->
        [blocks[i] EXCEPT !.bbox = <<0, 10 * (i - 1), 10, 10 * i>>]]

InitHighlight ==
    /\ \E f \in OcrFiles : InitMapper([p \in Pages |-> PlacedBlocks(f[p])])
    /\ InitWindow(<<>>, <<>>)
    /\ InitStitcher({})
    /\ NoExportWorker
    /\ boxes = <<>>
    /\ final_merged = <<>>

\* Pages are shown and the cursor is put at positions of the OCR text.
NextHighlight ==
    \/ PrevPage
    \/ NextPage
    \/ \E p \in 0 .. Len(ocr_text_full) : CheckAutoScrollBBox(p)

SpecHighlight == InitHighlight /\ [][NextHighlight]_vars

\* The OCR file of a page is written anew (OCR is run again on the page)
\* while a mapper is alive.
OcrFileWritten(page_num, blocks) ==
    /\ ocr_json[page_num] # blocks
    /\ ocr_json' = [ocr_json EXCEPT ![page_num] = blocks]
    /\ last' = LastRec("ocr_file_written", "left", "", -1, <<>>, page_num)
    /\ UNCHANGED <<cache, returned, mergerVars, stitcherVars, exportVars, windowVars, sessionVars>>

CacheBlockLists == {<<>>, <<TextBlock(<<"S">>)>>, <<TextBlock(<<"S">>), TextBlock(<<"S">>)>>}

InitCache ==
    /\ \E f \in [Pages -> CacheBlockLists] : InitMapper(f)
    /\ InitWindow(<<>>, <<>>)
    /\ InitStitcher({})
    /\ NoExportWorker
    /\ boxes = <<>>
    /\ final_merged = <<>>

\* Any sequence of mapper calls, the files changing in between.
NextCache ==
    \/ \E p \in Pages : LoadPageDataCall(p)
    \/ \E p \in Pages : GetPageTextMapCall(p)
    \/ \E ps \in PageNumLists : FindBboxesCall(<<"S">>, ps)
    \/ \E p \in Pages, blocks \in CacheBlockLists : OcrFileWritten(p, blocks)

SpecCache == InitCache /\ [][NextCache]_vars

\* ----------------------------------------------------------- ImageStitcher
RECURSIVE SumOf(_)
SumOf(ns) == IF ns = <<>> THEN 0 ELSE Head(ns) + SumOf(Tail(ns))

RECURSIVE MaxOf(_)
MaxOf(ns) == IF Len(ns) = 1 THEN ns[1] ELSE Max(Head(ns), MaxOf(Tail(ns)))

\* Variant: no padding between the tiles.
PredictSizeNoPadding(regions, is_vertical_text) ==
    IF regions = <<>> THEN <<0, 0>>
    ELSE LET ws == [k \in 1 .. Len(regions) |-> regions[k].w]
             hs == [k \in 1 .. Len(regions) |-> regions[k].h]
         IN  IF is_vertical_text THEN <<SumOf(ws) + 20, MaxOf(hs) + 20>>
             ELSE <<MaxOf(ws) + 20, SumOf(hs) + 20>>

\* predict_size
PredictSize(regions, is_vertical_text) ==
    IF regions = <<>> THEN <<0, 0>>
    ELSE LET padding == 10
             ws == [k \in 1 .. Len(regions) |-> regions[k].w]
             hs == [k \in 1 .. Len(regions) |-> regions[k].h]
         IN  IF is_vertical_text
             THEN LET max_h == MaxOf(hs)
                      total_w == SumOf(ws) + padding * (Len(regions) - 1)
                  IN  <<total_w + 20, max_h + 20>>
             ELSE LET max_w == MaxOf(ws)
                      total_h == SumOf(hs) + padding * (Len(regions) - 1)
                  IN  <<max_w + 20, total_h + 20>>

\* Variant: the first region without a crop ends the loop.
RECURSIVE SlicesUntilMissing(_, _)
SlicesUntilMissing(regions, images) ==
    IF regions = <<>> THEN <<>>
    ELSE LET b == Head(regions)
         IN  IF b.page \in images /\ b.w > 0 /\ b.h > 0
             THEN <<[width |-> b.w, height |-> b.h, page |-> b.page,
                     x |-> b.x, y |-> b.y]>> \o SlicesUntilMissing(Tail(regions), images)
             ELSE <<>>

\* stitch's first loop: a region whose page image loads and whose rectangle
\* is not empty yields the crop full_img.copy(x, y, w, h); any other region
\* is passed over.
RECURSIVE Slices(_, _)
Slices(regions, images) ==
    IF regions = <<>> THEN <<>>
    ELSE LET b == Head(regions)
         IN  (IF b.page \in images /\ b.w > 0 /\ b.h > 0
              THEN <<[width |-> b.w, height |-> b.h, page |-> b.page,
                      x |-> b.x, y |-> b.y]>>
              ELSE <<>>) \o Slices(Tail(regions), images)

\* stitch on the slices: the canvas and where each slice is drawn.
StitchSlices(slices, is_vertical_text) ==
    IF slices = <<>> THEN NoImage
    ELSE LET padding == 10
             ws == [k \in 1 .. Len(slices) |-> slices[k].width]
             hs == [k \in 1 .. Len(slices) |-> slices[k].height]
         IN  IF is_vertical_text
             THEN LET max_h == MaxOf(hs)
                      total_w == SumOf(ws) + padding * (Len(slices) - 1)
                      width == total_w + 20
                      xs[k \in 1 .. Len(slices)] ==
                          (IF k = 1 THEN width - 10 ELSE xs[k - 1] - padding)
                              - slices[k].width
                  IN  [null |-> FALSE, width |-> width, height |-> max_h + 20,
                       tiles |-> [k \in 1 .. Len(slices) |->
                                     [x |-> xs[k], y |-> 10, slice |-> slices[k]]]]
             ELSE LET max_w == MaxOf(ws)
                      total_h == SumOf(hs) + padding * (Len(slices) - 1)
                      ys[k \in 1 .. Len(slices)] ==
                          IF k = 1 THEN 10
                          ELSE ys[k - 1] + slices[k - 1].height + padding
                  IN  [null |-> FALSE, width |-> max_w + 20, height |-> total_h + 20,
                       tiles |-> [k \in 1 .. Len(slices) |->
                                     [x |-> 10, y |-> ys[k], slice |-> slices[k]]]]

\* stitch
Stitch(regions, images, is_vertical_text) ==
    StitchSlices(Slices(regions, images), is_vertical_text)

PredictSizeCall(is_vertical_text) ==
    /\ pred_size' = PredictSize(final_merged, is_vertical_text)
    /\ last' = LastRec(IF is_vertical_text THEN "predict_size_vertical"
                       ELSE "predict_size_horizontal",
                       "left", "", -1, <<>>, current_loaded_page)
    /\ UNCHANGED <<page_images, stitched_img, mergerVars, mapperVars, exportVars,
                   windowVars, sessionVars>>

StitchCall(is_vertical_text) ==
    /\ stitched_img' = Stitch(final_merged, page_images, is_vertical_text)
    /\ last' = LastRec(IF is_vertical_text THEN "stitch_vertical"
                       ELSE "stitch_horizontal",
                       "left", "", -1, <<>>, current_loaded_page)
    /\ UNCHANGED <<page_images, pred_size, mergerVars, mapperVars, exportVars,
                   windowVars, sessionVars>>

StitchBoxes ==
    [bbox : {<<100, 100, 200, 130>>, <<102, 132, 205, 160>>, <<150, 180, 260, 210>>},
     page : BoxPages, label : {"text"}]

\* Up to MaxBoxes boxes are merged, and the regions measured and stitched in
\* either orientation, with any of the page images missing.
InitStitch ==
    /\ InitMapper(NoOcr)
    /\ InitWindow(<<>>, <<>>)
    /\ \E images \in SUBSET BoxPages : InitStitcher(images)
    /\ NoExportWorker
    /\ boxes \in SeqsUpTo(StitchBoxes, MaxBoxes)
    /\ final_merged = <<>>

NextStitch ==
    \/ CallMerge
    \/ \E v \in BOOLEAN : PredictSizeCall(v)
    \/ \E v \in BOOLEAN : StitchCall(v)

SpecStitch == InitStitch /\ [][NextStitch]_vars

\* ------------------------------------------------------- ImageExportWorker
MaxEntries == 3

\* The largest predicted width or height that is still stitched.
SizeLimit == 65500

\* Variant: only an image too large in both directions is passed over.
TooLargeBoth(pred) == pred[1] > SizeLimit /\ pred[2] > SizeLimit

\* if pred_w > 65500 or pred_h > 65500
TooLarge(pred) == pred[1] > SizeLimit \/ pred[2] > SizeLimit

\* Variant: the loop never looks at is_running.
LoopHeadIgnoreStop(i, total, running) ==
    IF i >= total THEN "save" ELSE "in_entry"

\* for i, entry in enumerate(self.entries): if not self.is_running: break
LoopHead(i, total, running) ==
    IF i >= total THEN "save"
    ELSE IF ~running THEN "save"
    ELSE "in_entry"

\* img_filename = f"{page_num}_{page_idx}.jpg"
ImgFilename(entry) ==
    <<IF entry.pages # <<>> THEN entry.pages[1] ELSE 0, entry.page_index>>

\* The skip check: the file exists and its size is within 5 px of the
\* predicted size, and the export was not asked to overwrite.
ShouldStitch(force, files, name, pred) ==
    ~(/\ ~force
      /\ \E f \in files : /\ f.name = name
                          /\ Abs(f.width - pred[1]) < 5
                          /\ Abs(f.height - pred[2]) < 5)

\* stitched_img.save(save_path)
SaveImage(files, name, img) ==
    {f \in files : f.name # name}
        \cup {[name |-> name, width |-> img.width, height |-> img.height]}

\* self.progress.emit("Initializing export...")
WorkerStart ==
    /\ worker_pc = "created"
    /\ progress' = Append(progress, [kind |-> "initializing", i |-> -1, size |-> <<0, 0>>])
    /\ worker_pc' = "loop"
    /\ UNCHANGED <<entries, force_overwrite, is_running, worker_i, finished,
                   out_files, stitch_log, mergerVars, mapperVars, stitcherVars,
                   windowVars, sessionVars, last>>

\* The head of the loop: the loop ends when the entries are exhausted or
\* is_running is off; otherwise the entry's progress line is emitted (for
\* every tenth entry and the last one).
WorkerLoopHead ==
    /\ worker_pc = "loop"
    /\ worker_pc' = LoopHead(worker_i, Len(entries), is_running)
    /\ progress' = IF /\ worker_pc' = "in_entry"
                      /\ (worker_i % 10 = 0 \/ worker_i = Len(entries) - 1)
                   THEN Append(progress, [kind |-> "processing", i |-> worker_i,
                                          size |-> <<0, 0>>])
                   ELSE progress
    /\ UNCHANGED <<entries, force_overwrite, is_running, worker_i, finished,
                   out_files, stitch_log, mergerVars, mapperVars, stitcherVars,
                   windowVars, sessionVars, last>>

\* One pass through the body of the loop, for entries[worker_i]: map, merge,
\* predict, test the size, skip check, stitch and save, link.  boxes,
\* final_merged, pred_size and stitched_img are the body's bboxes, merged,
\* (pred_w, pred_h) and stitched_img.
WorkerEntry ==
    /\ worker_pc = "in_entry"
    /\ LET entry == entries[worker_i + 1]
           img_filename == ImgFilename(entry)
       IN  /\ boxes' = FindBboxes(entry.text, entry.pages, cache)
           /\ cache' = IF Strip(entry.text) = <<>> THEN cache
                       ELSE CacheAfterPages(cache, entry.pages)
           /\ IF boxes' = <<>>
              THEN UNCHANGED <<final_merged, pred_size, stitched_img, progress,
                               out_files, stitch_log, entries>>
              ELSE /\ final_merged' = Merge(boxes')
                   /\ pred_size' = PredictSize(final_merged', IsVertical(boxes'))
                   /\ IF TooLarge(pred_size')
                      THEN /\ progress' = Append(progress,
                                  [kind |-> "skipped", i |-> worker_i,
                                   size |-> pred_size'])
                           /\ UNCHANGED <<stitched_img, out_files, stitch_log, entries>>
                      ELSE /\ progress' = progress
                           /\ IF ShouldStitch(force_overwrite, out_files,
                                              img_filename, pred_size')
                              THEN /\ stitched_img' = Stitch(final_merged', page_images,
                                                             IsVertical(boxes'))
                                   /\ stitch_log' = Append(stitch_log,
                                          [i |-> worker_i, name |-> img_filename,
                                           saved |-> ~stitched_img'.null])
                                   /\ out_files' =
                                          IF stitched_img'.null THEN out_files
                                          ELSE SaveImage(out_files, img_filename,
                                                         stitched_img')
                              ELSE UNCHANGED <<stitched_img, stitch_log, out_files>>
                           /\ entries' = [entries EXCEPT
                                  ![worker_i + 1].image_path = <<img_filename>>]
    /\ worker_i' = worker_i + 1
    /\ worker_pc' = "loop"
    /\ UNCHANGED <<force_overwrite, is_running, finished, ocr_json, returned,
                   page_images, windowVars, sessionVars, last>>

\* After the loop: the index file is written and finished(True) emitted, or
\* writing fails and the handler emits finished(False).
WorkerSaveIndex(ok) ==
    /\ worker_pc = "save"
    /\ progress' = Append(progress, [kind |-> "saving", i |-> -1, size |-> <<0, 0>>])
    /\ finished' = Append(finished, ok)
    /\ worker_pc' = "done"
    /\ UNCHANGED <<entries, force_overwrite, is_running, worker_i, out_files,
                   stitch_log, mergerVars, mapperVars, stitcherVars, windowVars, sessionVars, last>>

\* stop, connected to the progress dialog's canceled signal.
WorkerStop ==
    /\ worker_pc # "none"
    /\ is_running
    /\ is_running' = FALSE
    /\ UNCHANGED <<entries, force_overwrite, worker_pc, worker_i, progress,
                   finished, out_files, stitch_log, mergerVars, mapperVars,
                   stitcherVars, windowVars, sessionVars, last>>

OcrBlock(text, bbox, label) == [text |-> text, bbox |-> bbox, block_label |-> label]

\* The OCR files of the export: page 1 has an ordinary block, a block one
\* pixel too high to be stitched and a block of the largest height that is
\* stitched; page 2 a vertical block one pixel too wide.
ExportOcr ==
    [p \in Pages |->
        IF p = 1
        THEN <<OcrBlock(<<"a", "a">>, <<0, 0, 100, 50>>, "text"),
               OcrBlock(<<"b", "b">>, <<0, 100, 100, 100 + SizeLimit - 19>>, "text"),
               OcrBlock(<<"S">>, <<200, 0, 300, SizeLimit - 20>>, "text")>>
        ELSE IF p = 2
        THEN <<OcrBlock(<<"c", "c">>, <<0, 0, SizeLimit - 19, 50>>, "vertical_text")>>
        ELSE <<>>]

ExportEntry(text, pages, page_index) ==
    [text |-> text, pages |-> pages, page_index |-> page_index, image_path |-> <<>>]

\* Entries as export_entries hands them over: no image_path yet.
ExportEntries ==
    {ExportEntry(<<"a", "a">>, <<1>>, 0), ExportEntry(<<"b", "b">>, <<1>>, 1),
     ExportEntry(<<"S">>, <<1>>, 0), ExportEntry(<<"c", "c">>, <<2>>, 0),
     ExportEntry(<<"z", "z">>, <<1>>, 2)}

\* An image left by an earlier export of the first entry.
EarlierFiles == {{}, {[name |-> <<1, 0>>, width |-> 120, height |-> 70]}}

\* A worker constructed for any list of up to MaxEntries entries.
InitWorker(image_sets, force_choices, file_sets) ==
    /\ InitMapper(ExportOcr)
    /\ InitWindow(<<>>, <<>>)
    /\ \E images \in image_sets : InitStitcher(images)
    /\ entries \in SeqsUpTo(ExportEntries, MaxEntries)
    /\ force_overwrite \in force_choices
    /\ is_running = TRUE
    /\ worker_pc = "created"
    /\ worker_i = 0
    /\ progress = <<>>
    /\ finished = <<>>
    /\ out_files \in file_sets
    /\ stitch_log = <<>>
    /\ boxes = <<>>
    /\ final_merged = <<>>

\* Any of the page images may be missing, and an earlier export may have
\* left a file.
InitExport == InitWorker({{}, {1}, {1, 2}}, BOOLEAN, EarlierFiles)

\* A first export with every page image at hand.
InitCancel == InitWorker({{1, 2}}, {FALSE}, {{}})

WorkerStep ==
    \/ WorkerStart
    \/ WorkerLoopHead
    \/ WorkerEntry
    \/ \E ok \in BOOLEAN : WorkerSaveIndex(ok)

NextExport == WorkerStep \/ WorkerStop

SpecExport == InitExport /\ [][NextExport]_vars

\* run() moves on to its next position; only the steps of WorkerStep change
\* worker_pc.
WorkerAdvances ==
    /\ worker_pc \in {"created", "loop", "in_entry", "save"}
    /\ worker_pc' \in {"loop", "in_entry", "save", "done"}
    /\ worker_pc' # worker_pc

\* The worker's thread runs on: while run() has not returned, its next step
\* is taken.
SpecCancel == InitCancel /\ [][NextExport]_vars /\ WF_worker_pc(WorkerAdvances)

\* ===================================================================
\* Properties
\* ===================================================================
\* 1-based document positions covered by the spans of cs that satisfy Keep.
Covered(cs, Keep(_)) ==
    UNION {SelStart(cs[k]) + 1 .. SelEnd(cs[k]) : k \in {h \in 1 .. Len(cs) : Keep(cs[h])}}

IsInsert(c) == c.type = "insert"

IsDelete(c) == c.type = "delete"

\* d without the units at the positions of P.
RECURSIVE WithoutFrom(_, _, _)
WithoutFrom(d, P, k) ==
    IF k > Len(d) THEN <<>>
    ELSE (IF k \in P THEN <<>> ELSE <<d[k]>>) \o WithoutFrom(d, P, k + 1)

Without(d, P) == WithoutFrom(d, P, 1)

\* The kinds of the pending spans, in list order.
Kinds(cs) == [k \in 1 .. Len(cs) |-> cs[k].type]

\* Construction indices of the spans still pending in cs.
PendingIds(cs) == {cs[k].id : k \in 1 .. Len(cs)}

\* The step is a click handled by handle_merge_click.
ClickStep == last'.op = "handle_merge_click"

\* The action the click step is to execute on editor s: the clicked editor
\* runs the user's action, the other one that action with Accept and Reject
\* swapped.
ActionOn(s) ==
    IF s = last'.side THEN last'.action
    ELSE IF last'.action = "apply" THEN "reject" ELSE "apply"

\* Accept removes the text of a Delete span, Reject the text of an Insert span.
TextIsRemoved(action, type) ==
    \/ action = "apply" /\ type = "delete"
    \/ action = "reject" /\ type = "insert"

\* Spans of cs named by the indices of group that lie inside cs.
Named(cs, group) == {k \in 1 .. Len(cs) : \E g \in 1 .. Len(group) : group[g] = k - 1}

AllResolvedAs(s, action) == \A k \in 1 .. Len(resolved[s]) : resolved[s][k] = action


\* C1 -- Merge round trip.  When the merge view is left (left editor
\* committed) after every span of the left editor was rejected, the left
\* editor holds exactly the text a it had before enter and the commit reports
\* no change; after every span was accepted it holds exactly the text b of
\* the other side and the commit reports a change exactly when a differs
\* from b.
C1_MergeRoundTrip ==
    [][last'.op = "toggle_merge_view_off" =>
          LET a == original_text_backup["left"]
              b == original_text_backup["right"]
          IN  /\ AllResolvedAs("left", "reject") =>
                     doc'["left"] = Enc(a) /\ ~has_changes'["left"]
              /\ AllResolvedAs("left", "apply") =>
                     doc'["left"] = Enc(b) /\ (has_changes'["left"] <=> a # b)]_vars

\* C2 -- Mirror convergence.  Once every span has been resolved on both
\* sides, the two unified buffers hold the same text.
C2_MirrorConvergence ==
    (/\ \A s \in Side : is_merge_mode[s]
     /\ \A s \in Side : merge_cursors[s] = <<>>)
        => doc["left"] = doc["right"]

C4_ResolvedIndexIsNoOp ==
    [][ClickStep =>
          \A s \in Side :
              (\A g \in 1 .. Len(last'.group) :
                   /\ last'.group[g] + 1 <= Len(resolved[s])
                   /\ resolved[s][last'.group[g] + 1] # "pending")
                  => doc'[s] = doc[s] /\ merge_cursors'[s] = merge_cursors[s]]_vars

\* C4 (amended) -- indices are positions in the current pending list: a
\* resolve whose indices all lie past the end of an editor's current pending
\* list leaves that editor's buffer and pending list unchanged.
C4_StaleIndexIsNoOp ==
    [][ClickStep =>
          \A s \in Side :
              (\A g \in 1 .. Len(last'.group) :
                   last'.group[g] >= Len(merge_cursors[s]))
                  => doc'[s] = doc[s] /\ merge_cursors'[s] = merge_cursors[s]]_vars

\* C4 witness: the mirrored editor, with spans still pending, received only
\* indices past the end of its list.
C4_Witness ==
    /\ last.op = "handle_merge_click"
    /\ \E s \in Side :
           /\ last.pre[s] > 0
           /\ \A g \in 1 .. Len(last.group) : last.group[g] >= last.pre[s]
           /\ Len(merge_cursors[s]) = last.pre[s]

\* C5 -- 1:1 correspondence.  While both editors are in merge mode their
\* pending lists hold the spans of the same construction indices: the same
\* number right after enter, and the same spans removed by every resolve.
C5_ListsCorrespond ==
    (\A s \in Side : is_merge_mode[s])
        => /\ Len(merge_cursors["left"]) = Len(merge_cursors["right"])
           /\ PendingIds(merge_cursors["left"]) = PendingIds(merge_cursors["right"])

\* C6 -- exit.  Leaving the merge view commits the left editor: the text of
\* every pending Insert span is removed, the text of every pending Delete
\* span is kept, nothing else changes, and the return value says whether the
\* result differs from the pre-enter text; the right editor is discarded: its
\* pre-enter text is restored and no change is reported.  Both editors end
\* out of merge mode with an empty pending list.  In particular, when no
\* span was resolved, the committed text is the merged text of enter without
\* the characters of its Insert spans.
C6_ExitMergeMode ==
    [][last'.op = "toggle_merge_view_off" =>
          LET ins == Covered(merge_cursors["left"], IsInsert)
              del == Covered(merge_cursors["left"], IsDelete)
              a   == original_text_backup["left"]
              b   == original_text_backup["right"]
              data == GenerateMergeData(a, b, GetOpcodes(a, b))
              inserted ==
                  UNION {data.formats[k][1] + 1 .. data.formats[k][1] + data.formats[k][2] :
                           k \in {h \in 1 .. Len(data.formats) :
                                     data.formats[h][3] = "insert"}}
          IN  /\ doc'["left"] = Without(doc["left"], ins)
              /\ ins \cap del = {}
              /\ AllResolvedAs("left", "pending") =>
                     Dec(doc'["left"]) = Without(data.merged, inserted)
              /\ has_changes'["left"] <=>
                     Dec(doc'["left"]) # original_text_backup["left"]
              /\ doc'["right"] = Enc(original_text_backup["right"])
              /\ ~has_changes'["right"]
              /\ \A s \in Side : ~is_merge_mode'[s] /\ merge_cursors'[s] = <<>>]_vars

\* C7 -- Adjacency grouping.  The clicked editor resolves the targeted span
\* together with the pending span of the opposite kind that immediately
\* follows it in the list and starts where the target ends, or immediately
\* precedes it and ends where the target starts, whichever half was
\* targeted; a target with no such neighbour is resolved alone.
C7_AdjacencyGrouping ==
    [][ClickStep =>
          LET cs == merge_cursors[last'.side]
              t  == last'.target + 1
              partners ==
                  {k \in {t - 1, t + 1} \cap (1 .. Len(cs)) :
                      /\ cs[k].type # cs[t].type
                      /\ \/ k = t + 1 /\ SelEnd(cs[t]) = SelStart(cs[k])
                         \/ k = t - 1 /\ SelEnd(cs[k]) = SelStart(cs[t])}
              left_over == Kinds(merge_cursors'[last'.side])
          IN  /\ partners = {} => left_over = Without(Kinds(cs), {t})
              /\ partners # {} =>
                     \E k \in partners : left_over = Without(Kinds(cs), {t, k})]_vars

\* C7 witness: a click on one half of an Insert+Delete pair resolved both.
C7_Witness ==
    /\ last.op = "handle_merge_click"
    /\ Len(last.group) = 2
    /\ last.target = last.group[2]
    /\ Len(merge_cursors[last.side]) = last.pre[last.side] - 2


\* C9 -- enter.  Right after both editors entered merge mode, in each editor
\* (a its own pre-enter text, b the other editor's) the spans are in ascending
\* order and do not overlap, every Replace opcode of diff(a, b) has produced
\* an Insert span holding b's text immediately followed by a Delete span
\* holding a's text, the buffer without its Insert spans is a and the buffer
\* without its Delete spans is b.
C9_EnterBuildsUnifiedBuffer ==
    last.op = "toggle_merge_view_on" =>
        \A s \in Side :
            LET a  == original_text_backup[s]
                b  == original_text_backup[Other(s)]
                cs == merge_cursors[s]
                d  == doc[s]
                fm == GenerateMergeData(a, b, GetOpcodes(a, b)).formats
            IN  /\ \A k \in 1 .. Len(cs) : SelStart(cs[k]) <= SelEnd(cs[k])
                /\ \A k \in 1 .. Len(cs) - 1 : SelEnd(cs[k]) <= SelStart(cs[k + 1])
                /\ \A k \in 1 .. Len(cs) - 1 :
                       (cs[k].type = "insert" /\ cs[k + 1].type = "delete"
                            /\ fm[k][1] + fm[k][2] = fm[k + 1][1])
                           => SelEnd(cs[k]) = SelStart(cs[k + 1])
                /\ Without(d, Covered(cs, IsInsert)) = Enc(a)
                /\ Without(d, Covered(cs, IsDelete)) = Enc(b)


\* C8 (as claimed) -- entering while an episode is still active first ends
\* that episode as exit(commit=false) would: when the loaded page is reloaded
\* with the merge view on, each editor records as the new episode's original
\* the original of the episode it was in.
C8_EnterEndsPreviousEpisode ==
    [][(merge_mode /\ last'.op = "jump_page")
          => \A s \in Side : original_text_backup'[s] = original_text_backup[s]]_vars

\* C10 (as claimed) -- latest-wins: the opcodes that on_diff_finished applies
\* were computed from the texts the editors hold when they are applied.
C10_LatestWins ==
    last.op = "on_diff_finished"
        => /\ diff_worker.text_l = Dec(doc["left"])
           /\ diff_worker.text_r = Dec(doc["right"])


\* C11 (as claimed) -- debounce coalescing: when the debounce timer fires, the
\* interval has elapsed since the last edit and one diff run is started, on
\* the texts the editors hold.
C11_DebounceCoalescing ==
    [][last'.op = "run_diff_async" =>
          /\ since_edit >= DebounceInterval
          /\ diff_worker'.pc = "started"
          /\ diff_worker'.text_l = Dec(doc["left"])
          /\ diff_worker'.text_r = Dec(doc["right"])
          /\ ~diff_timer']_vars


\* The opcodes set on the editors are the diff of the texts they hold: they
\* partition source and destination.
OpcodesFresh == diff_opcodes["left"] = GetOpcodes(Dec(doc["left"]), Dec(doc["right"]))

MapStep == last.op \in {"request_highlight_other", "on_image_bbox_click"}

\* Source and destination text of the mapping that ran last, and the
\* character position its idx stands for.
MapSrcText == Dec(doc[last.side])

MapDstText == Dec(doc[Other(last.side)])

MapPos == ToPyPos(MapSrcText, last.idx)

SrcStart(op) == IF last.side = "left" THEN op[2] ELSE op[4]

SrcEnd(op) == IF last.side = "left" THEN op[3] ELSE op[5]

DstStart(op) == IF last.side = "left" THEN op[4] ELSE op[2]

DstEnd(op) == IF last.side = "left" THEN op[5] ELSE op[3]

\* C12 (as claimed) -- a position inside the source range of an Equal opcode
\* maps to dst_start + (p - src_start), which is at most dst_end, in both
\* directions.
C12_MapInsideEqual ==
    (MapStep /\ OpcodesFresh) =>
        \A k \in 1 .. Len(diff_opcodes["left"]) :
            LET op == diff_opcodes["left"][k]
            IN  (op[1] = "equal" /\ SrcStart(op) <= MapPos /\ MapPos < SrcEnd(op))
                    => /\ DstStart(op) + (MapPos - SrcStart(op)) <= DstEnd(op)
                       /\ last.mapped =
                              ToQtPos(MapDstText, DstStart(op) + (MapPos - SrcStart(op)))

\* C13 -- a position inside the source range of an Insert, Delete or Replace
\* opcode (or at an empty one) maps to that opcode's dst_start.
C13_MapInsideChange ==
    (MapStep /\ OpcodesFresh) =>
        \A k \in 1 .. Len(diff_opcodes["left"]) :
            LET op == diff_opcodes["left"][k]
            IN  (/\ op[1] # "equal"
                 /\ SrcStart(op) <= MapPos
                 /\ (MapPos < SrcEnd(op)) \/ (MapPos = SrcEnd(op) /\ SrcStart(op) = SrcEnd(op)))
                    => last.mapped = Len(Enc(SubSeq(MapDstText, 1, DstStart(op))))

\* C13 witness: the cursor stood inside a Replace or Delete of the source
\* whose destination starts after a two-unit character.
C13_Witness ==
    /\ last.op = "request_highlight_other"
    /\ OpcodesFresh
    /\ \E k \in 1 .. Len(diff_opcodes["left"]) :
           LET op == diff_opcodes["left"][k]
           IN  /\ op[1] # "equal"
               /\ SrcStart(op) <= MapPos /\ MapPos < SrcEnd(op)
               /\ last.mapped > DstStart(op)

\* C14 -- a position beyond the source range of every opcode of the list in
\* use -- fresh, left behind by an edit, or empty -- maps to -1, and a caller
\* that got -1 moves no highlight and no cursor.
C14_BeyondIsNotFound ==
    MapStep =>
        /\ (\A k \in 1 .. Len(diff_opcodes["left"]) :
                MapPos > SrcEnd(diff_opcodes["left"][k])) => last.mapped = -1
        /\ last.mapped = -1 => last.shown = -1

\* C14 witness: a mapping ran on opcodes an edit left behind; the position is
\* past the last of them and nothing was shown.
C14_Witness ==
    /\ MapStep
    /\ ~OpcodesFresh
    /\ diff_opcodes["left"] # <<>>
    /\ \A k \in 1 .. Len(diff_opcodes["left"]) :
           MapPos > SrcEnd(diff_opcodes["left"][k])
    /\ last.mapped = -1
    /\ last.shown = -1

\* C15 -- of two positions p1 < p2 of one Equal opcode, mapped one after the
\* other, the first maps strictly before the second.
C15_MonotoneInEqual ==
    [][(/\ MapStep /\ MapStep'
        /\ OpcodesFresh
        /\ last'.side = last.side
        /\ last.idx < last'.idx
        /\ \E k \in 1 .. Len(diff_opcodes["left"]) :
               LET op == diff_opcodes["left"][k]
               IN  /\ op[1] = "equal"
                   /\ SrcStart(op) <= MapPos
                   /\ ToPyPos(MapSrcText, last'.idx) <= SrcEnd(op))
           => last.mapped < last'.mapped]_vars

\* C15 witness: a mapping of a position at least two characters into an Equal
\* opcode, the positions before it in that opcode mapping below it.
C15_Witness ==
    /\ last.op = "request_highlight_other"
    /\ OpcodesFresh
    /\ last.mapped > 1
    /\ \E k \in 1 .. Len(diff_opcodes["left"]) :
           LET op == diff_opcodes["left"][k]
           IN  /\ op[1] = "equal"
               /\ SrcStart(op) + 2 <= MapPos
               /\ MapPos <= SrcEnd(op)

\* C16 -- to_py_pos(text, to_qt_pos(text, p)) = p for every text an editor
\* holds and every 0 <= p <= len(text).
C16_RoundTrip ==
    \A side \in Side :
        \A p \in 0 .. Len(Dec(doc[side])) :
            ToPyPos(Dec(doc[side]), ToQtPos(Dec(doc[side]), p)) = p

\* C16 witness: an image click whose character index in the left text has a
\* two-unit character before it was converted and mapped.
C16_Witness ==
    /\ last.op = "on_image_bbox_click"
    /\ last.idx <= Len(doc["left"])
    /\ last.idx > MapPos
    /\ MapPos > 0
    /\ last.mapped # -1

\* BBoxMerger.merge has returned.
MergeDone == last.op = "merge"

\* The ways of giving each input box one output region.
Assignments == [1 .. Len(boxes) -> 1 .. Len(final_merged)]

\* The input boxes g gives to region k.
GroupOf(g, k) == {i \in 1 .. Len(boxes) : g[i] = k}

Least(S) == CHOOSE i \in S : \A j \in S : i <= j

\* g gives every region at least one box, only boxes of the region's page,
\* and of each page's boxes a run without gaps; the regions come by page and,
\* within a page, in the order of their first box.
IsGrouping(g) ==
    /\ \A k \in 1 .. Len(final_merged) :
           /\ GroupOf(g, k) # {}
           /\ \A i \in GroupOf(g, k) : boxes[i].page = final_merged[k].page
    /\ \A i, j, l \in 1 .. Len(boxes) :
           (i < j /\ j < l /\ g[i] = g[l] /\ boxes[j].page = boxes[i].page)
               => g[j] = g[i]
    /\ \A k, n \in 1 .. Len(final_merged) :
           k < n => \/ final_merged[k].page < final_merged[n].page
                    \/ /\ final_merged[k].page = final_merged[n].page
                       /\ Least(GroupOf(g, k)) < Least(GroupOf(g, n))

\* Region reg is exactly the union rectangle of the boxes in grp.
IsUnionOf(reg, grp) ==
    /\ \A i \in grp :
           /\ reg.x <= boxes[i].bbox[1] /\ reg.y <= boxes[i].bbox[2]
           /\ reg.r >= boxes[i].bbox[3] /\ reg.b >= boxes[i].bbox[4]
    /\ \E i \in grp : reg.x = boxes[i].bbox[1]
    /\ \E i \in grp : reg.y = boxes[i].bbox[2]
    /\ \E i \in grp : reg.r = boxes[i].bbox[3]
    /\ \E i \in grp : reg.b = boxes[i].bbox[4]
    /\ reg.w = reg.r - reg.x
    /\ reg.h = reg.b - reg.y

\* C17 -- the output regions partition the input boxes: each box goes into
\* exactly one region, a region is made of boxes of one page only (it is the
\* union of exactly its boxes), and the regions come in the order they were
\* flushed.
C17_Partition ==
    MergeDone =>
        \E g \in Assignments :
            /\ IsGrouping(g)
            /\ \A k \in 1 .. Len(final_merged) : IsUnionOf(final_merged[k], GroupOf(g, k))

\* C17 witness: three boxes, the middle one of another page than the two
\* around it, which are merged into one region returned first.
C17_Witness ==
    /\ MergeDone
    /\ Len(boxes) = 3
    /\ boxes[1].page = 1 /\ boxes[2].page = 2 /\ boxes[3].page = 1
    /\ Len(final_merged) = 2
    /\ final_merged[1].page = 1
    /\ final_merged[1].b > boxes[1].bbox[4]

\* C18 -- every region covers each box merged into it and is no narrower and
\* no lower than it; there are at most as many regions as input boxes.
C18_Conservative ==
    MergeDone =>
        /\ Len(final_merged) <= Len(boxes)
        /\ \E g \in Assignments :
               /\ IsGrouping(g)
               /\ \A i \in 1 .. Len(boxes) :
                      LET reg == final_merged[g[i]]
                          bx == boxes[i].bbox
                      IN  /\ reg.x <= bx[1] /\ reg.y <= bx[2]
                          /\ reg.r >= bx[3] /\ reg.b >= bx[4]
                          /\ reg.w >= bx[3] - bx[1]
                          /\ reg.h >= bx[4] - bx[2]

\* C18 witness: boxes were merged, into a region wider and higher than the
\* first of them.
C18_Witness ==
    /\ MergeDone
    /\ Len(final_merged) < Len(boxes)
    /\ final_merged[1].w > boxes[1].bbox[3] - boxes[1].bbox[1]
    /\ final_merged[1].h > boxes[1].bbox[4] - boxes[1].bbox[2]

\* The rectangles <<x1, y1, x2, y2>> of the input boxes of page p, and of
\* the regions returned for it.
PageRects(p) ==
    LET pb == SelectSeq(boxes, LAMBDA b : b.page = p)
    IN  [k \in 1 .. Len(pb) |-> pb[k].bbox]

RegionRects(p) ==
    LET pr == SelectSeq(final_merged, LAMBDA reg : reg.page = p)
    IN  [k \in 1 .. Len(pr) |-> <<pr[k].x, pr[k].y, pr[k].r, pr[k].b>>]

HasVertical(p) ==
    \E k \in 1 .. Len(boxes) : boxes[k].page = p /\ boxes[k].label = "vertical_text"

\* The claimed tests on an accumulator and the next box.
SameBlock(acc, nx) == Abs(acc[1] - nx[1]) < 50 /\ nx[2] - acc[4] < 50

SameColumn(acc, nx) == Abs((acc[1] + acc[3]) - (nx[1] + nx[3])) < 40

\* The claimed fold: the accumulator becomes its union with the next box
\* when the test of the mode holds, and is flushed otherwise.
RECURSIVE FoldRects(_, _, _)
FoldRects(acc, rest, vertical) ==
    IF rest = <<>> THEN <<acc>>
    ELSE LET nx == Head(rest)
         IN  IF (vertical /\ SameColumn(acc, nx)) \/ (~vertical /\ SameBlock(acc, nx))
             THEN FoldRects(<<Min(acc[1], nx[1]), Min(acc[2], nx[2]),
                              Max(acc[3], nx[3]), Max(acc[4], nx[4])>>,
                            Tail(rest), vertical)
             ELSE <<acc>> \o FoldRects(nx, Tail(rest), vertical)

Folded(rects, vertical) ==
    IF rects = <<>> THEN <<>> ELSE FoldRects(Head(rects), Tail(rects), vertical)

\* C19 -- on a page without a vertical-text box the regions are the fold of
\* the page's boxes in input order under the test |left x difference| < 50
\* and next.top - accumulator.bottom < 50.
C19_HorizontalRule ==
    MergeDone =>
        \A p \in BoxPages :
            ~HasVertical(p) => RegionRects(p) = Folded(PageRects(p), FALSE)

\* C19 witness: the claim's example -- (100,100,200,130) and (102,132,205,160)
\* become (100,100,205,160), and (400,100,500,130) stays a region of its own.
C19_Witness ==
    /\ MergeDone
    /\ ~HasVertical(1)
    /\ PageRects(1) = <<<<100, 100, 200, 130>>, <<102, 132, 205, 160>>,
                        <<400, 100, 500, 130>>>>
    /\ RegionRects(1) = <<<<100, 100, 205, 160>>, <<400, 100, 500, 130>>>>

\* C20 -- a page is folded under the same-column test (centres less than 20
\* apart) exactly when one of its boxes is labelled vertical text, and under
\* the horizontal test otherwise.
C20_VerticalRule ==
    MergeDone =>
        \A p \in BoxPages :
            RegionRects(p) = Folded(PageRects(p), HasVertical(p))

\* C20 witness: a page whose second box alone is labelled vertical text; its
\* two boxes, centres 20 apart, stay two columns although the horizontal test
\* would have merged them.
C20_Witness ==
    /\ MergeDone
    /\ Len(boxes) = 2
    /\ boxes[1].page = 1 /\ boxes[2].page = 1
    /\ boxes[1].label = "text" /\ boxes[2].label = "vertical_text"
    /\ SameBlock(boxes[1].bbox, boxes[2].bbox)
    /\ ~SameColumn(boxes[1].bbox, boxes[2].bbox)
    /\ Len(final_merged) = 2

\* The blocks' texts, each followed by one separator.
RECURSIVE WithSeparators(_)
WithSeparators(blocks) ==
    IF blocks = <<>> THEN <<>>
    ELSE Head(blocks).text \o <<"\n">> \o WithSeparators(Tail(blocks))

\* The blocks' texts one after the other.
RECURSIVE Concatenated(_)
Concatenated(blocks) ==
    IF blocks = <<>> THEN <<>> ELSE Head(blocks).text \o Concatenated(Tail(blocks))

RECURSIVE SumOfRanges(_)
SumOfRanges(index) ==
    IF index = <<>> THEN 0
    ELSE Head(index).end_index - Head(index).start_index + SumOfRanges(Tail(index))

\* index and flat have the claimed structure over blocks.
IndexStructure(blocks, flat, index) ==
    /\ Len(index) = Len(blocks)
    /\ index # <<>> => index[1].start_index = 0
    /\ \A k \in 1 .. Len(index) :
           index[k].end_index - index[k].start_index = Len(blocks[k].text)
    /\ \A k \in 1 .. Len(index) - 1 :
           index[k + 1].start_index = index[k].end_index + 1
    /\ flat = WithSeparators(blocks)
    /\ SumOfRanges(index) = Len(Concatenated(blocks))
    /\ blocks = <<>> => (flat = <<>> /\ index = <<>>)

\* C21 (as claimed) -- every flattening of a block list has the structure:
\* the map of the page shown in the window, and the text map the mapper
\* returns for a page.
C21_BlockIndexStructure ==
    /\ IndexStructure(ocr_json[current_loaded_page], ocr_text_full, ocr_char_map)
    /\ last.op = "get_page_text_map" =>
           returned.full_text = WithSeparators(returned.blocks)

\* C21 (amended) -- the map load_current_page builds has the claimed
\* structure; get_page_text_map puts no separator between blocks: its text
\* is the blocks' texts one after the other, and char_map gives for each
\* character of it the index of its block.
C21_EditorIndexStructure ==
    /\ IndexStructure(ocr_json[current_loaded_page], ocr_text_full, ocr_char_map)
    /\ last.op = "get_page_text_map" =>
           /\ returned.blocks = ocr_json[last.page]
           /\ returned.full_text = Concatenated(returned.blocks)
           /\ Len(returned.char_map) = Len(returned.full_text)
           /\ \A i \in 1 .. Len(returned.char_map) :
                  LET k == returned.char_map[i] + 1
                      before == Len(Concatenated(SubSeq(returned.blocks, 1, k - 1)))
                  IN  /\ k \in 1 .. Len(returned.blocks)
                      /\ before < i
                      /\ i <= before + Len(returned.blocks[k].text)

\* C21 witness: a page of two blocks, the first not empty, was loaded into
\* the window.
C21_Witness ==
    /\ last.op = "next_page"
    /\ Len(ocr_char_map) = 2
    /\ ocr_char_map[1].end_index > 0
    /\ ocr_char_map[2].start_index = ocr_char_map[1].end_index + 1
    /\ ocr_char_map[2].end_index > ocr_char_map[2].start_index

\* 0-based positions of the characters of block k (0-based) in the page text.
BlockRange(blocks, k) ==
    LET before == Len(Concatenated(SubSeq(blocks, 1, k)))
    IN  before .. before + Len(blocks[k + 1].text) - 1

\* A run of the entry in the page text counts unless it is one ASCII character.
Retained(entry, x) == x[3] >= 2 \/ (x[3] = 1 /\ entry[x[1] + 1] = "S")

\* The (page, block index) pairs a retained matching run touches.
Touched(entry_text, page_nums) ==
    LET entry == Strip(entry_text)
    IN  IF entry = <<>> THEN {}
        ELSE {key \in UNION {{<<page_nums[h], k>> : k \in 0 .. Len(ocr_json[page_nums[h]]) - 1} :
                                 h \in 1 .. Len(page_nums)} :
                 LET blocks == ocr_json[key[1]]
                     runs == GetMatchingBlocks(entry, Concatenated(blocks))
                 IN  \E r \in 1 .. Len(runs) :
                         /\ Retained(entry, runs[r])
                         /\ BlockRange(blocks, key[2])
                                \cap (runs[r][2] .. runs[r][2] + runs[r][3] - 1) # {}}

\* C22 -- find_bboxes returns a box for every block a retained run touches,
\* for no other block, and for each (page, block index) once.
C22_TouchedOnce ==
    last.op = "find_bboxes" =>
        /\ {returned[k].sort_key : k \in 1 .. Len(returned)}
               = Touched(last.entry_text, last.page_nums)
        /\ \A k, h \in 1 .. Len(returned) :
               returned[k].sort_key = returned[h].sort_key => k = h
        /\ \A k \in 1 .. Len(returned) :
               LET key == returned[k].sort_key
               IN  /\ returned[k].page = key[1]
                   /\ returned[k].bbox = ocr_json[key[1]][key[2] + 1].bbox

\* C22 witness: the page was listed twice and two runs of the entry touch
\* its one block; the block was returned once.
C22_Witness ==
    /\ last.op = "find_bboxes"
    /\ last.page_nums = <<1, 1>>
    /\ last.entry_text = <<"S", "a", "S">>
    /\ Len(ocr_json[1]) = 1
    /\ ocr_json[1][1].text = <<"S", "S">>
    /\ Len(returned) = 1

\* The place of page p in the list of pages given.
FirstPlace(page_nums, p) ==
    CHOOSE h \in 1 .. Len(page_nums) :
        page_nums[h] = p /\ \A g \in 1 .. h - 1 : page_nums[g] # p

C28_CacheMemoized ==
    [][/\ \A p \in DOMAIN cache : p \in DOMAIN cache' /\ cache'[p] = cache[p]
       /\ last'.op = "load_page_data" =>
              /\ last'.page \in DOMAIN cache'
              /\ returned' = cache'[last'.page]
              /\ last'.page \notin DOMAIN cache => returned' = ocr_json[last'.page]]_vars

\* C28 witness: a page was looked up after its file had changed, and the
\* blocks stored at the first load were returned.
C28_Witness ==
    /\ last.op = "load_page_data"
    /\ cache[last.page] # ocr_json[last.page]
    /\ cache[last.page] # <<>>
    /\ returned = cache[last.page]

\* The regions of final_merged whose page image is there.
Usable == SelectSeq(final_merged, LAMBDA reg : reg.page \in page_images)

RECURSIVE WidthSum(_)
WidthSum(regs) == IF regs = <<>> THEN 0 ELSE Head(regs).w + WidthSum(Tail(regs))

RECURSIVE HeightSum(_)
HeightSum(regs) == IF regs = <<>> THEN 0 ELSE Head(regs).h + HeightSum(Tail(regs))

WidestOf(regs) == CHOOSE w \in {regs[k].w : k \in 1 .. Len(regs)} :
                      \A k \in 1 .. Len(regs) : regs[k].w <= w

HighestOf(regs) == CHOOSE h \in {regs[k].h : k \in 1 .. Len(regs)} :
                       \A k \in 1 .. Len(regs) : regs[k].h <= h

\* The claimed size for regions regs.
ClaimedSize(regs, vertical) ==
    IF regs = <<>> THEN <<0, 0>>
    ELSE IF vertical
         THEN <<WidthSum(regs) + 10 * (Len(regs) - 1) + 20, HighestOf(regs) + 20>>
         ELSE <<WidestOf(regs) + 20, HeightSum(regs) + 10 * (Len(regs) - 1) + 20>>

\* C24 -- predict_size gives (max width + 20, sum of heights + 10 (n - 1) + 20)
\* horizontally and (sum of widths + 10 (n - 1) + 20, max height + 20)
\* vertically, (0, 0) for no region; and the canvas stitch builds when every
\* region yields its crop has that size.
C24_PredictSize ==
    /\ last.op = "predict_size_horizontal" =>
           pred_size = ClaimedSize(final_merged, FALSE)
    /\ last.op = "predict_size_vertical" =>
           pred_size = ClaimedSize(final_merged, TRUE)
    /\ (last.op \in {"stitch_horizontal", "stitch_vertical"}
            /\ final_merged # <<>> /\ Usable = final_merged) =>
           <<stitched_img.width, stitched_img.height>>
               = ClaimedSize(final_merged, last.op = "stitch_vertical")

\* C24 witness: three regions of different widths were measured vertically.
C24_Witness ==
    /\ last.op = "predict_size_vertical"
    /\ Len(final_merged) = 3
    /\ final_merged[1].w # final_merged[2].w
    /\ pred_size[1] = final_merged[1].w + final_merged[2].w + final_merged[3].w + 40

\* C25 -- stitch composes exactly the regions whose page image is there, in
\* order, passing over the others; it returns None exactly when there is no
\* such region.
C25_StitchSkips ==
    last.op \in {"stitch_horizontal", "stitch_vertical"} =>
        /\ stitched_img.null <=> Usable = <<>>
        /\ Len(stitched_img.tiles) = Len(Usable)
        /\ \A k \in 1 .. Len(Usable) :
               /\ stitched_img.tiles[k].slice.page = Usable[k].page
               /\ stitched_img.tiles[k].slice.x = Usable[k].x
               /\ stitched_img.tiles[k].slice.y = Usable[k].y
               /\ stitched_img.tiles[k].slice.width = Usable[k].w
               /\ stitched_img.tiles[k].slice.height = Usable[k].h
        /\ ~stitched_img.null =>
               <<stitched_img.width, stitched_img.height>>
                   = ClaimedSize(Usable, last.op = "stitch_vertical")

\* C25 witness: the first of three regions has no page image; the two after
\* it were composed.
C25_Witness ==
    /\ last.op = "stitch_horizontal"
    /\ Len(final_merged) = 3
    /\ final_merged[1].page \notin page_images
    /\ Len(stitched_img.tiles) = 2
    /\ ~stitched_img.null

\* The worker leaves the body of its loop for entry worker_i.
EntryDone == worker_pc = "in_entry" /\ worker_pc' = "loop"

\* C26 -- an entry whose predicted size is over 65500 in width or height is
\* reported with a skip reason, is not stitched and gets no image reference,
\* and the loop goes on with the next entry; an export that was not stopped
\* has gone through every entry when its index is written.
C26_OversizeSkipped ==
    /\ [][(EntryDone /\ boxes' # <<>>
             /\ (pred_size'[1] > 65500 \/ pred_size'[2] > 65500)) =>
            /\ progress' = Append(progress, [kind |-> "skipped", i |-> worker_i,
                                             size |-> pred_size'])
            /\ stitch_log' = stitch_log
            /\ out_files' = out_files
            /\ entries' = entries
            /\ entries[worker_i + 1].image_path = <<>>
            /\ worker_i' = worker_i + 1
            /\ is_running' = is_running]_vars
    /\ []((is_running /\ worker_pc \in {"save", "done"}) =>
              worker_i = Len(entries))

\* C26 witness: the first entry was skipped for its height, the second for
\* its width, and the third was stitched and linked after them.
C26_Witness ==
    /\ worker_pc = "done"
    /\ Len(entries) = 3
    /\ \E k \in 1 .. Len(progress) :
           /\ progress[k].kind = "skipped" /\ progress[k].i = 0
           /\ progress[k].size[2] = 65501
    /\ \E k \in 1 .. Len(progress) :
           /\ progress[k].kind = "skipped" /\ progress[k].i = 1
           /\ progress[k].size[1] = 65501
    /\ entries[1].image_path = <<>>
    /\ entries[2].image_path = <<>>
    /\ entries[3].image_path # <<>>
    /\ \E k \in 1 .. Len(stitch_log) : stitch_log[k].i = 2 /\ stitch_log[k].saved

\* C27 -- once stop() has been requested the worker starts no entry, ends at
\* most the entry it is in, and then emits finished exactly once.
C27_CooperativeCancel ==
    /\ [][~is_running =>
            /\ (worker_pc' = "in_entry" => worker_pc = "in_entry")
            /\ (worker_i' # worker_i => worker_pc = "in_entry")
            /\ ~is_running']_vars
    /\ [](Len(finished) <= 1)
    /\ [](worker_pc = "done" <=> Len(finished) = 1)
    /\ (~is_running ~> worker_pc = "done")

\* C27 witness: stop() came during the first of three entries; that entry was
\* ended, no other was started, and finished was emitted once.
C27_Witness ==
    /\ ~is_running
    /\ worker_pc = "done"
    /\ Len(entries) = 3
    /\ worker_i = 1
    /\ Len(finished) = 1

\* The source slices (lo = 2) or destination slices (lo = 4) of ops taken
\* from t, one after the other.
RECURSIVE SlicesOf(_, _, _)
SlicesOf(ops, t, lo) ==
    IF ops = <<>> THEN <<>>
    ELSE SubSeq(t, Head(ops)[lo] + 1, Head(ops)[lo + 1]) \o SlicesOf(Tail(ops), t, lo)

\* ops tile [0, len a) and [0, len b) in ascending order.
Tiling(ops, a, b) ==
    /\ (a = <<>> /\ b = <<>>) => ops = <<>>
    /\ ops = <<>> => (a = <<>> /\ b = <<>>)
    /\ ops # <<>> =>
           /\ ops[1][2] = 0 /\ ops[1][4] = 0
           /\ ops[Len(ops)][3] = Len(a) /\ ops[Len(ops)][5] = Len(b)
    /\ \A k \in 1 .. Len(ops) :
           /\ ops[k][2] <= ops[k][3]
           /\ ops[k][4] <= ops[k][5]
           /\ ops[k][2] < ops[k][3] \/ ops[k][4] < ops[k][5]
    /\ \A k \in 1 .. Len(ops) - 1 :
           /\ ops[k][3] = ops[k + 1][2]
           /\ ops[k][5] = ops[k + 1][4]
    /\ SlicesOf(ops, a, 2) = a
    /\ SlicesOf(ops, b, 4) = b

\* C29 -- the opcodes the diff worker emits for texts a and b are in
\* ascending order, their source ranges tile [0, len a) and their destination
\* ranges tile [0, len b) without gap or overlap, so that the slices rebuild a
\* and b; two empty texts give the empty list.
C29_DiffCoverage ==
    diff_worker.pc = "result_ready" =>
        Tiling(diff_worker.opcodes, diff_worker.text_l, diff_worker.text_r)

\* C29 witness: a diff of two different non-empty texts with three opcodes or
\* more, a changed range among them.
C29_Witness ==
    /\ diff_worker.pc = "result_ready"
    /\ diff_worker.text_l # <<>>
    /\ diff_worker.text_r # <<>>
    /\ Len(diff_worker.opcodes) >= 3
    /\ \E k \in 1 .. Len(diff_worker.opcodes) : diff_worker.opcodes[k][1] = "replace"
    /\ \E k \in 1 .. Len(diff_worker.opcodes) : diff_worker.opcodes[k][1] = "equal"

\* C30 -- a click step resolves, on the other editor, the spans at the same
\* list indices as on the clicked editor, once and with Accept and Reject
\* swapped (the C3 semantics of the swapped action); the clicked editor
\* resolves its group once only; the other editor is unchanged when it is not
\* in merge mode.
C30_MirrorStep ==
    [][ClickStep =>
          LET side  == last'.side
              other == Other(side)
              cs    == merge_cursors[other]
              grp   == {last'.group[g] + 1 : g \in 1 .. Len(last'.group)}
              gone  == UNION {SelStart(cs[k]) + 1 .. SelEnd(cs[k]) :
                                k \in {h \in grp \cap (1 .. Len(cs)) :
                                          TextIsRemoved(ActionOn(other), cs[h].type)}}
          IN  /\ Len(merge_cursors'[side]) = Len(merge_cursors[side]) - Cardinality(grp)
              /\ IF is_merge_mode[other]
                 THEN /\ grp \subseteq 1 .. Len(cs)
                      /\ Kinds(merge_cursors'[other]) = Without(Kinds(cs), grp)
                      /\ doc'[other] = Without(doc[other], gone)
                 ELSE /\ doc'[other] = doc[other]
                      /\ merge_cursors'[other] = merge_cursors[other]]_vars

\* C31 -- re-diff liveness, in its finite form: once no debounce timeout is
\* pending and no diff worker is in flight (nothing further will run until
\* the next edit), the opcodes the editors hold are the diff of the texts
\* they hold.
C31_QuiescentIsFresh ==
    (~diff_timer /\ ~is_updating_diff /\ diff_worker = NoWorker) =>
        \A s \in Side :
            diff_opcodes[s] = GetOpcodes(Dec(doc["left"]), Dec(doc["right"]))

\* C32 -- every user text change marks the loaded page dirty for the edited
\* side and copies the editor text into the page store, whether or not a diff
\* worker is in flight.
C32_EditRecorded ==
    [][last'.op = "user_edit" =>
          /\ last'.side = "left" =>
                 /\ current_loaded_page \in dirty_pages_left'
                 /\ pages_left'[current_loaded_page] = Dec(doc'["left"])
          /\ last'.side = "right" =>
                 /\ current_loaded_page \in dirty_pages_right'
                 /\ pages_right_text'[current_loaded_page] = Dec(doc'["right"])]_vars

\* C33 -- when the merge view is left, the page store agrees with the
\* editors: the stored left text of the loaded page is the left editor's
\* final text and the stored right text is the right editor's pre-enter text,
\* which the right editor holds again.
C33_StoreAgreesAfterExit ==
    [][last'.op = "toggle_merge_view_off" =>
          /\ pages_left'[current_loaded_page] = Dec(doc'["left"])
          /\ pages_right_text'[current_loaded_page] = original_text_backup["right"]
          /\ Dec(doc'["right"]) = original_text_backup["right"]]_vars

\* The step loads a page (prev_page, next_page or jump_page).
PageLoadStep == last'.op \in {"prev_page", "next_page", "jump_page"}

\* No span of editor s has been resolved in the running episode.
Untouched(s) == \A k \in 1 .. Len(resolved[s]) : resolved[s][k] = "pending"

\* C34 -- a page change made while the merge view is on leaves the stored
\* text of the page being left alone for an editor that still has pending
\* spans, and marks that page dirty for no side whose text no click changed.
C34_NoMergeBufferSaved ==
    [][(PageLoadStep /\ merge_mode) =>
          /\ merge_cursors["left"] # <<>> =>
                 pages_left'[current_loaded_page] = pages_left[current_loaded_page]
          /\ merge_cursors["right"] # <<>> =>
                 pages_right_text'[current_loaded_page]
                     = pages_right_text[current_loaded_page]
          /\ (Untouched("left") /\ Untouched("right")) =>
                 /\ dirty_pages_left' = dirty_pages_left
                 /\ dirty_pages_right' = dirty_pages_right]_vars

\* C35 -- Global undo round trip: undo_global leaves the left and right page
\* stores exactly as the snapshot it popped recorded them, for every page,
\* the loaded page included.
C35_UndoRestoresSnapshot ==
    [][last'.op = "undo_global" =>
          /\ pages_left' = global_undo_stack[Len(global_undo_stack)].left
          /\ pages_right_text' = global_undo_stack[Len(global_undo_stack)].right]_vars

\* C36 -- OCR position to bounding box: for a position p of the flattened
\* OCR text with start_index <= p < end_index of block k, the lookup used for
\* image highlighting selects block k's bounding box.
C36_PositionSelectsItsBlock ==
    [][last'.op = "check_auto_scroll_bbox" =>
          \A k \in DOMAIN ocr_char_map :
              (ocr_char_map[k].start_index <= last'.idx
                  /\ last'.idx < ocr_char_map[k].end_index) =>
                  /\ last'.mapped = k
                  /\ last'.group = HighlightRect(ocr_char_map[k].bbox)]_vars

\* C37 -- In bulk export an entry is given an image reference only if an
\* image file for it was written during this run or an existing file of
\* matching size was found; an entry whose regions produced no crop at all
\* gets no image reference.
C37_ImagePathOnlyWithFile ==
    [][(worker_pc = "in_entry" /\ entries'[worker_i + 1].image_path # <<>>) =>
          \/ /\ Len(stitch_log') = Len(stitch_log) + 1
             /\ stitch_log'[Len(stitch_log')].saved
          \/ ~ShouldStitch(force_overwrite, out_files,
                           ImgFilename(entries[worker_i + 1]), pred_size')]_vars

\* C38 -- At most one diff worker is in flight at any time: run_diff_async
\* starts a worker only when none is in flight, and between the start of a
\* worker and the handling of its finished signal it leaves that worker
\* alone.
C38_OneWorkerInFlight ==
    [][last'.op = "run_diff_async" =>
          IF diff_worker = NoWorker
          THEN diff_worker'.pc = "started"
          ELSE diff_worker' = diff_worker]_vars

\* run_diff_async has run while a worker started earlier had its result
\* ready but its finished signal not yet handled.
C38_Witness ==
    /\ last.op = "run_diff_async"
    /\ diff_worker.pc \in {"result_ready", "finished"}
    /\ is_updating_diff

\* C39 -- Project list invariants: starting from the default configuration,
\* after any sequence of create_project, delete_project and
\* set_active_project the project list is never empty, project names are
\* unique, and active_project names a project that is in the list.
C39_ProjectListInvariants ==
    /\ config_data.projects # <<>>
    /\ \A i, j \in DOMAIN config_data.projects :
           i # j => config_data.projects[i].name # config_data.projects[j].name
    /\ \E i \in DOMAIN config_data.projects :
           config_data.projects[i].name = config_data.active_project

\* The default project, active since construction, has been deleted after
\* two others were created: the first project left is the active one.
C39_Witness ==
    /\ last.op = "delete_project"
    /\ last.action = "Default Project"
    /\ Len(config_data.projects) = 2
    /\ GetProject("Default Project") = <<>>
    /\ config_data.active_project = config_data.projects[1].name

=============================================================================
